---- MODULE Spec2Model ----
(***************************************************************************)
(* Model of the Debate Floor of polymarket-intelligence:                   *)
(*   - src/backend/agents/debate.py : the agents (stages), the moderator   *)
(*     and build_debate_graph, which chains the enabled agents;            *)
(*   - src/backend/routes/debate.py : initiate_debate, which builds the    *)
(*     graph, runs it on a fresh DebateState and formats the response,     *)
(*     and _fetch_top_traders, the holders / trades aggregation.           *)
(* Strings built by f-strings are sequences of string pieces; joining and  *)
(* concatenating them is sequence concatenation.                           *)
(***************************************************************************)
EXTENDS Integers, Sequences, FiniteSets, TLC

VARIABLES
    pc,         \* position of initiate_debate: "build", "run", "done", "error"
    config,     \* the AgentConfig handed to build_debate_graph
    graph,      \* the compiled workflow: nodes, entry point, edges
    frontier,   \* nodes the workflow has scheduled and not yet run
    state,      \* the DebateState of the run
    executed,   \* history: the nodes run so far, in order
    errors,     \* history: per executed node, the exception it handled ("" if none)
    llm_calls,  \* history: every llm.invoke, with the context put in its prompt
    response,   \* the DebateResponse (or the HTTP error) returned to the caller
    tpc,        \* position of _fetch_top_traders
    top_n,      \* its top_n argument
    aggregates, \* its aggregates dict, as the list of its values in insertion order
    top,        \* top_holders / top_traders
    stats_map,  \* address -> (global_pnl, global_roi, total_balance)
    fetch_result, \* what _fetch_top_traders returned (or that it raised)
    tk_pc,      \* the toolkit function that was called ("ready" before the call)
    tk_in,      \* its arguments
    tk_out,     \* the dict it returned
    cache,      \* UserStatsCache._cache: address -> CachedUserStats
    clock,      \* time.time()
    cache_call, \* the last call on the cache, with what it returned
    last_set,   \* history: address -> the values and the time of its last set
    pos_pc,     \* position of _fetch_all_positions: "called", "get" (in
                \* await client.get), "exit" (leaving the async with of the
                \* client) or "returned"
    max_pages,  \* its max_pages argument
    collected,  \* its collected list
    seen_ids,   \* its seen_ids set
    cursor,     \* its cursor
    offset,     \* its offset
    page,       \* its page counter
    requests,   \* history: the page requests sent so far
    page_response, \* what the last page request came back with
    tasks,      \* the enrichment tasks of the gather in scope, in order,
                \* after those an earlier gather left unfinished
    semaphore   \* the values of the two asyncio.Semaphore(8), by coroutine

pipeline_vars ==
    <<pc, config, graph, frontier, state, executed, errors, llm_calls, response>>

trader_vars == <<tpc, top_n, aggregates, top, stats_map, fetch_result>>

toolkit_vars == <<tk_pc, tk_in, tk_out>>

cache_vars == <<cache, clock, cache_call, last_set>>

positions_vars ==
    <<pos_pc, max_pages, collected, seen_ids, cursor, offset, page, requests,
      page_response>>

enrich_vars == <<tasks, semaphore>>

vars == <<pipeline_vars, trader_vars, toolkit_vars,
          cache_vars, positions_vars, enrich_vars>>

-----------------------------------------------------------------------------
(* Generic helpers *)

\* Python's None where a string is expected
None == "<None>"

Range(s) == {s[i] : i \in 1..Len(s)}

\* dict.get(key, default)
Get(d, key, default) == IF key \in DOMAIN d THEN d[key] ELSE default

\* "\n".join(parts), each part a sequence of string pieces
RECURSIVE Join(_)
Join(parts) ==
    IF Len(parts) = 0 THEN <<>>
    ELSE IF Len(parts) = 1 THEN parts[1]
    ELSE parts[1] \o <<"\n">> \o Join(Tail(parts))

-----------------------------------------------------------------------------
(* Agent registry and graph construction *)

END == "__end__"

AGENT_ORDER ==
    <<"statistics_expert", "time_decay_analyst", "top_traders_analyst",
      "generalist_expert", "crypto_macro_analyst", "devils_advocate">>

AGENT_NODES ==
    {"statistics_expert", "top_traders_analyst", "generalist_expert",
     "devils_advocate", "crypto_macro_analyst", "time_decay_analyst"}

DEFAULT_AGENT_CONFIG == [a \in AGENT_NODES |-> TRUE]

\* A key no agent is registered under
UnknownAgent == "sentiment_guru"

\* The name each node gives to the HumanMessage it returns
AgentName ==
    [statistics_expert    |-> "Statistics Expert",
     time_decay_analyst   |-> "Time Decay Analyst",
     top_traders_analyst  |-> "Top Traders Analyst",
     generalist_expert    |-> "Generalist Expert",
     crypto_macro_analyst |-> "Crypto/Macro Analyst",
     devils_advocate      |-> "Devil's Advocate",
     moderator            |-> "Moderator"]

NoGraph == [nodes |-> {}, entry |-> END, edges |-> {}]

\* Mutant: config.get(agent, False), a key left out disables its agent
enabled_agents_absent_disabled(cfg) ==
    SelectSeq(AGENT_ORDER, LAMBDA agent : Get(cfg, agent, FALSE))

\* enabled_agents = [agent for agent in AGENT_ORDER if config.get(agent, True)]
enabled_agents(cfg) ==
    SelectSeq(AGENT_ORDER, LAMBDA agent : Get(cfg, agent, TRUE))

\* Mutant: every enabled agent, not only the last, is connected to the moderator
build_debate_graph_fan_in(c) ==
    LET cfg     == IF c.none THEN DEFAULT_AGENT_CONFIG ELSE c.flags
        enabled == enabled_agents(cfg)
        n       == Len(enabled)
    IN  [raised |-> FALSE,
         graph  |->
           [nodes |-> Range(enabled) \cup {"moderator"},
            entry |-> IF n > 0 THEN enabled[1] ELSE "moderator",
            edges |-> {<<enabled[i], enabled[i + 1]>> : i \in 1..(n - 1)}
                      \cup {<<enabled[i], "moderator">> : i \in 1..n}
                      \cup {<<"moderator", END>>}]]

\* build_debate_graph: raised is TRUE when the function raises (the
\* AGENT_NODES[agent_name] lookup of an enabled agent is its only raise).
build_debate_graph(c) ==
    LET cfg     == IF c.none THEN DEFAULT_AGENT_CONFIG ELSE c.flags
        enabled == enabled_agents(cfg)
        n       == Len(enabled)
    IN  IF \E i \in 1..n : enabled[i] \notin AGENT_NODES
        THEN [raised |-> TRUE, graph |-> NoGraph]
        ELSE [raised |-> FALSE,
              graph  |->
                [nodes |-> Range(enabled) \cup {"moderator"},
                 entry |-> IF n > 0 THEN enabled[1] ELSE "moderator",
                 edges |-> {<<enabled[i], enabled[i + 1]>> : i \in 1..(n - 1)}
                           \cup (IF n > 0 THEN {<<enabled[n], "moderator">>} ELSE {})
                           \cup {<<"moderator", END>>}]]

\* The nodes a compiled workflow runs after node n
Successors(g, n) == {e[2] : e \in {d \in g.edges : d[1] = n}} \ {END}

-----------------------------------------------------------------------------
(* External collaborators: the LLM and the search tool *)

\* llm.invoke either returns a message (ok, text = response.content) or
\* raises (text = str(e)).
AnalystLLM ==
    {[ok |-> TRUE,  text |-> "analysis"],
     [ok |-> FALSE, text |-> "llm unavailable"]}

ModeratorLLM ==
    {[ok |-> TRUE,  text |-> "Buy YES, confidence 70%"],
     [ok |-> TRUE,  text |-> ""],
     [ok |-> FALSE, text |-> "llm unavailable"]}

\* tavily_tool.invoke returns results or raises
SearchOutcomes == {"results", "raises"}

-----------------------------------------------------------------------------
(* The agents.  Each returns the update it hands back to the workflow and  *)
(* the llm.invoke calls it made.                                           *)

HumanMessage(content, name) ==
    [type |-> "human", content |-> content, name |-> name]

\* One llm.invoke, with the part of the prompt taken from the state
Call(agent, context) == [agent |-> agent, context |-> context]

\* "\n".join([m.content for m in messages if isinstance(m, HumanMessage)])
PreviousArguments(messages) ==
    LET human == SelectSeq(messages, LAMBDA m : m.type = "human")
    IN  Join([i \in 1..Len(human) |-> human[i].content])

\* What a node hands back: the update returned by its try block ...
Returned(update, calls) == [update |-> update, calls |-> calls, error |-> ""]

\* ... or by its "except Exception as e" block, e being str(e)
Handled(update, calls, e) == [update |-> update, calls |-> calls, error |-> e]

statistics_expert(st, llm) ==
    LET price_data == IF st.price_history_7d # <<>> THEN st.price_history_7d
                      ELSE st.price_history_24h
        name  == "Statistics Expert"
        calls == <<Call("statistics_expert", <<"<stats_report>">>)>>
    IN  IF Len(price_data) < 2
        THEN \* volatility['low'] is not a key of the insufficient-data result
             Handled([messages |-> <<HumanMessage(
                 <<"**Statistics Expert**: (Failed to analyze) ", "'low'">>, name)>>],
                 <<>>, "'low'")
        ELSE IF llm.ok
        THEN Returned([messages |-> <<HumanMessage(
                 <<"**Statistics Expert**: ", "<stats_report>",
                   "### Expert Interpretation", llm.text>>, name)>>], calls)
        ELSE Handled([messages |-> <<HumanMessage(
                 <<"**Statistics Expert**: (Failed to analyze) ", llm.text>>, name)>>],
                 calls, llm.text)

top_traders_analyst(st, llm) ==
    LET name  == "Top Traders Analyst"
        calls == <<Call("top_traders_analyst", <<"<traders_report>">>)>>
    IN  IF st.top_traders = <<>>
        THEN Returned([messages |-> <<HumanMessage(
                 <<"**Top Traders Analyst**: No top trader data available for this market.">>,
                 name)>>], <<>>)
        ELSE IF llm.ok
        THEN Returned([messages |-> <<HumanMessage(
                 <<"**Top Traders Analyst**: ", "<traders_report>",
                   "### Expert Interpretation", llm.text>>, name)>>], calls)
        ELSE Handled([messages |-> <<HumanMessage(
                 <<"**Top Traders Analyst**: (Failed to analyze) ", llm.text>>, name)>>],
                 calls, llm.text)

\* query_llm: the call that brainstorms the queries (a failure falls back to
\* a default query); search: the searches (a failure is logged and skipped);
\* llm: the call that analyses the results.
generalist_expert(st, query_llm, search, llm) ==
    LET name == "Generalist Expert"
        search_context == IF search = "results" THEN <<"<search results>">>
                          ELSE <<"No relevant search results found.">>
        calls == <<Call("generalist_expert", <<"<query_prompt>">>),
                   Call("generalist_expert", search_context)>>
    IN  IF st.market_question = ""
        THEN Returned([messages |-> <<HumanMessage(
                 <<"**Generalist Expert**: No market question provided.">>, name)>>],
                 <<>>)
        ELSE IF llm.ok
        THEN Returned([messages |-> <<HumanMessage(
                 <<"**Generalist Expert**: ", llm.text>>, name)>>], calls)
        ELSE Handled([messages |-> <<HumanMessage(
                 <<"**Generalist Expert**: (Failed to analyze) ", llm.text>>, name)>>],
                 calls, llm.text)

\* Mutant: the context is built from the last message only (messages[-1:])
devils_advocate_last_only(st, llm) ==
    LET name    == "Devil's Advocate"
        n       == Len(st.messages)
        joined  == PreviousArguments(IF n = 0 THEN <<>> ELSE <<st.messages[n]>>)
        context == IF joined = <<>> THEN <<"No previous arguments provided.">>
                   ELSE joined
        calls   == <<Call("devils_advocate", context)>>
    IN  IF llm.ok
        THEN Returned([messages |-> <<HumanMessage(
                 <<"**Devil's Advocate**: ", llm.text>>, name)>>], calls)
        ELSE Handled([messages |-> <<HumanMessage(
                 <<"**Devil's Advocate**: (Failed to analyze) ", llm.text>>, name)>>],
                 calls, llm.text)

devils_advocate(st, llm) ==
    LET name    == "Devil's Advocate"
        joined  == PreviousArguments(st.messages)
        context == IF joined = <<>> THEN <<"No previous arguments provided.">>
                   ELSE joined
        calls   == <<Call("devils_advocate", context)>>
    IN  IF llm.ok
        THEN Returned([messages |-> <<HumanMessage(
                 <<"**Devil's Advocate**: ", llm.text>>, name)>>], calls)
        ELSE Handled([messages |-> <<HumanMessage(
                 <<"**Devil's Advocate**: (Failed to analyze) ", llm.text>>, name)>>],
                 calls, llm.text)

\* Mutant: the except block returns no message
crypto_macro_analyst_drops(st, llm) ==
    LET name  == "Crypto/Macro Analyst"
        calls == <<Call("crypto_macro_analyst", <<st.market_question>>)>>
    IN  IF llm.ok
        THEN Returned([messages |-> <<HumanMessage(
                 <<"**Crypto/Macro Analyst**: ", llm.text>>, name)>>], calls)
        ELSE Handled([messages |-> <<>>], calls, llm.text)

crypto_macro_analyst(st, llm) ==
    LET name  == "Crypto/Macro Analyst"
        calls == <<Call("crypto_macro_analyst", <<st.market_question>>)>>
    IN  IF llm.ok
        THEN Returned([messages |-> <<HumanMessage(
                 <<"**Crypto/Macro Analyst**: ", llm.text>>, name)>>], calls)
        ELSE Handled([messages |-> <<HumanMessage(
                 <<"**Crypto/Macro Analyst**: (Failed to analyze) ", llm.text>>, name)>>],
                 calls, llm.text)

time_decay_analyst(st, llm) ==
    LET name  == "Time Decay Analyst"
        calls == <<Call("time_decay_analyst", <<"<time_report>">>)>>
    IN  IF llm.ok
        THEN Returned([messages |-> <<HumanMessage(
                 <<"**Time Decay Analyst**: ", "<time_report>",
                   "### Expert Interpretation", llm.text>>, name)>>], calls)
        ELSE Handled([messages |-> <<HumanMessage(
                 <<"**Time Decay Analyst**: (Failed to analyze) ", llm.text>>, name)>>],
                 calls, llm.text)

\* Mutant: the except block returns the message without a verdict
moderator_no_fallback(st, llm) ==
    LET name    == "Moderator"
        joined  == PreviousArguments(st.messages)
        context == IF joined = <<>> THEN <<"No arguments presented.">> ELSE joined
        calls   == <<Call("moderator", context)>>
    IN  IF llm.ok
        THEN Returned([messages |-> <<HumanMessage(
                 <<"**Moderator**: ", llm.text>>, name)>>,
                       verdict  |-> llm.text], calls)
        ELSE Handled([messages |-> <<HumanMessage(
                 <<"**Moderator**: (Failed to reach verdict) ", llm.text>>, name)>>],
                 calls, llm.text)

moderator(st, llm) ==
    LET name    == "Moderator"
        joined  == PreviousArguments(st.messages)
        context == IF joined = <<>> THEN <<"No arguments presented.">> ELSE joined
        calls   == <<Call("moderator", context)>>
    IN  IF llm.ok
        THEN Returned([messages |-> <<HumanMessage(
                 <<"**Moderator**: ", llm.text>>, name)>>,
                       verdict  |-> llm.text], calls)
        ELSE Handled([messages |-> <<HumanMessage(
                 <<"**Moderator**: (Failed to reach verdict) ", llm.text>>, name)>>,
                      verdict  |-> "Verdict generation failed."],
                 calls, llm.text)

-----------------------------------------------------------------------------
(* The DebateState and the workflow's reducers *)

\* Mutant: messages declared without the add_messages reducer, so an update
\* overwrites the list
DebateState_apply_overwrite(st, update) ==
    [k \in DOMAIN st |-> IF k \notin DOMAIN update THEN st[k] ELSE update[k]]

\* messages: Annotated[List[BaseMessage], add_messages] appends the new
\* messages; every other key of an update overwrites the state's value.
DebateState_apply(st, update) ==
    [k \in DOMAIN st |->
        IF k \notin DOMAIN update THEN st[k]
        ELSE IF k = "messages" THEN st[k] \o update[k]
        ELSE update[k]]

\* initial_state of initiate_debate
initial_state(question, prices_24h, prices_7d, top_traders) ==
    [messages          |-> <<>>,
     market_data       |-> [title |-> question, price |-> 50, end_date |-> "None"],
     market_question   |-> question,
     verdict           |-> "",
     price_history_24h |-> prices_24h,
     price_history_7d  |-> prices_7d,
     top_traders       |-> top_traders]

-----------------------------------------------------------------------------
(* initiate_debate: inputs *)

\* Bound: how many of the six agent keys a configuration may leave out
MaxAbsentKeys == 1

\* The configurations build_debate_graph is handed: None, or a dict with a
\* flag for each agent key it holds, or a dict with a flag for every agent
\* key and an unregistered key besides
AgentConfigs ==
    {[none |-> TRUE, flags |-> <<>>]} \cup
    {[none |-> FALSE, flags |-> f] :
        f \in UNION {[K -> BOOLEAN] :
                K \in {S \in SUBSET AGENT_NODES :
                          Cardinality(AGENT_NODES \ S) <= MaxAbsentKeys}}} \cup
    {[none |-> FALSE, flags |-> [k \in AGENT_NODES \cup {UnknownAgent} |->
                                    IF k = UnknownAgent THEN TRUE ELSE f[k]]] :
        f \in [AGENT_NODES -> BOOLEAN]}

TopTradersInputs ==
    {<<>>,
     <<[address |-> "0xaaa", total_volume |-> 111, bias |-> "bullish"]>>}

\* What initiate_debate has fetched for a market: the usual market, or the
\* usual market with one of its inputs empty
DebateInputs ==
    {in \in [question : {"", "Will it happen?"}, prices_24h : {<<52>>},
             prices_7d : {<<>>, <<40, 50, 60>>},
             top_traders : TopTradersInputs] :
        (IF in.question = "" THEN 1 ELSE 0)
            + (IF in.prices_7d = <<>> THEN 1 ELSE 0)
            + (IF in.top_traders = <<>> THEN 1 ELSE 0) <= 1}

NoResponse == [status |-> 0]

PipelineInit ==
    /\ pc = "build"
    /\ config \in AgentConfigs
    /\ graph = NoGraph
    /\ frontier = {}
    /\ \E in \in DebateInputs :
            state = initial_state(in.question, in.prices_24h,
                                  in.prices_7d, in.top_traders)
    /\ executed = <<>>
    /\ errors = <<>>
    /\ llm_calls = <<>>
    /\ response = NoResponse
    /\ tpc = "idle"
    /\ top_n = 5
    /\ aggregates = <<>>
    /\ top = <<>>
    /\ stats_map = <<>>
    /\ fetch_result = [status |-> "pending", traders |-> <<>>]
    /\ tk_pc = "idle"
    /\ tk_in = <<>>
    /\ tk_out = <<>>
    /\ cache = {}
    /\ clock = 0
    /\ cache_call = <<>>
    /\ last_set = {}
    /\ pos_pc = "idle"
    /\ max_pages = 0
    /\ collected = <<>>
    /\ seen_ids = {}
    /\ cursor = None
    /\ offset = 0
    /\ page = 0
    /\ requests = <<>>
    /\ page_response = <<>>
    /\ tasks = <<>>
    /\ semaphore = [enrich |-> 0, fetch_user_stats |-> 0]

-----------------------------------------------------------------------------
(* initiate_debate: steps *)

\* debate_graph = build_debate_graph(agent_config); a raise becomes the
\* HTTP 500 of initiate_debate
BuildGraph ==
    /\ pc = "build"
    /\ LET built == build_debate_graph(config)
       IN  IF built.raised
           THEN /\ pc' = "error"
                /\ response' = [status |-> 500]
                /\ UNCHANGED <<graph, frontier>>
           ELSE /\ pc' = "run"
                /\ graph' = built.graph
                /\ frontier' = {built.graph.entry}
                /\ UNCHANGED response
    /\ UNCHANGED <<config, state, executed, errors, llm_calls, trader_vars,
                 toolkit_vars, cache_vars, positions_vars, enrich_vars>>

\* The workflow runs a scheduled node, merges its update into the state and
\* schedules the nodes its edges lead to
RunNode(n, result) ==
    /\ pc = "run"
    /\ n \in frontier
    /\ state' = DebateState_apply(state, result.update)
    /\ frontier' = (frontier \ {n}) \cup Successors(graph, n)
    /\ executed' = Append(executed, n)
    /\ errors' = Append(errors, result.error)
    /\ llm_calls' = llm_calls \o result.calls
    /\ UNCHANGED <<pc, config, graph, response, trader_vars, toolkit_vars,
                   cache_vars, positions_vars, enrich_vars>>

StatisticsExpert ==
    \E llm \in AnalystLLM :
        RunNode("statistics_expert", statistics_expert(state, llm))

TimeDecayAnalyst ==
    \E llm \in AnalystLLM :
        RunNode("time_decay_analyst", time_decay_analyst(state, llm))

TopTradersAnalyst ==
    \E llm \in AnalystLLM :
        RunNode("top_traders_analyst", top_traders_analyst(state, llm))

GeneralistExpert ==
    \E query_llm \in AnalystLLM, search \in SearchOutcomes, llm \in AnalystLLM :
        RunNode("generalist_expert",
                generalist_expert(state, query_llm, search, llm))

CryptoMacroAnalyst ==
    \E llm \in AnalystLLM :
        RunNode("crypto_macro_analyst", crypto_macro_analyst(state, llm))

DevilsAdvocate ==
    \E llm \in AnalystLLM :
        RunNode("devils_advocate", devils_advocate(state, llm))

Moderator ==
    \E llm \in ModeratorLLM :
        RunNode("moderator", moderator(state, llm))

\* Format Output: the named HumanMessages and
\* final_state.get("verdict", "No verdict reached.")
formatted_messages(messages) ==
    LET kept == SelectSeq(messages, LAMBDA m : m.type = "human" /\ m.name # "")
    IN  [i \in 1..Len(kept) |-> [agent |-> kept[i].name, content |-> kept[i].content]]

Respond ==
    /\ pc = "run"
    /\ frontier = {}
    /\ pc' = "done"
    /\ response' = [status   |-> 200,
                    messages |-> formatted_messages(state.messages),
                    verdict  |-> Get(state, "verdict", "No verdict reached.")]
    /\ UNCHANGED <<config, graph, frontier, state, executed, errors, llm_calls, trader_vars,
                 toolkit_vars, cache_vars, positions_vars, enrich_vars>>

PipelineNext ==
    \/ BuildGraph
    \/ StatisticsExpert
    \/ TimeDecayAnalyst
    \/ TopTradersAnalyst
    \/ GeneralistExpert
    \/ CryptoMacroAnalyst
    \/ DevilsAdvocate
    \/ Moderator
    \/ Respond

Spec == PipelineInit /\ [][PipelineNext]_vars

-----------------------------------------------------------------------------
(* _fetch_top_traders: helpers *)

\* value if value is truthy else other  (Python's "or" on optional strings)
Or(value, other) == IF value # None /\ value # "" THEN value ELSE other

\* list.sort(key=lambda x: x.get(key, 0), reverse=True): largest key first,
\* entries with equal keys keep their order in seq
RECURSIVE SortDescBy(_, _)
SortDescBy(seq, key) ==
    IF seq = <<>> THEN <<>>
    ELSE LET n      == Len(seq)
             x      == seq[n]
             sorted == SortDescBy(SubSeq(seq, 1, n - 1), key)
             before == SelectSeq(sorted, LAMBDA y : y[key] >= x[key])
             after  == SelectSeq(sorted, LAMBDA y : y[key] < x[key])
         IN  before \o <<x>> \o after

\* seq[:k]: the first k elements, or all but the last -k when k is negative
Take(seq, k) ==
    SubSeq(seq, 1, IF k >= Len(seq) THEN Len(seq)
                   ELSE IF k >= 0 THEN k
                   ELSE IF Len(seq) + k > 0 THEN Len(seq) + k
                   ELSE 0)

Max(a, b) == IF a >= b THEN a ELSE b

\* The Market row: id (condition id) and slug
market == [id |-> "0xc0nd", slug |-> "my-market"]

-----------------------------------------------------------------------------
(* _fetch_top_traders: the holders path *)

\* JSON scalars: a number, null (or a key that is absent, where the code
\* reads it with get), a string that is no number, a string that is the
\* number n ("numstr"), and an integer too large for a float (float() raises
\* OverflowError on it)
Num(n) == [kind |-> "num", n |-> n]

Null == [kind |-> "null", n |-> 0]

Text == [kind |-> "text", n |-> 0]

Huge == [kind |-> "huge", n |-> 0]

\* _parse_float: float(value), 0.0 on TypeError and ValueError; any other
\* exception leaves the function
_parse_float(value) ==
    [raised |-> value.kind = "huge",
     value  |-> IF value.kind \in {"num", "numstr"} THEN value.n ELSE 0]

\* value or 0
OrZero(value) ==
    IF value.kind = "null" \/ (value.kind = "num" /\ value.n = 0)
    THEN Num(0) ELSE value

\* holders built from the /holders payload: one entry per holder of each
\* token that has a proxyWallet
RECURSIVE HoldersOfToken(_)
HoldersOfToken(token_holders) ==
    IF token_holders = <<>> THEN <<>>
    ELSE LET holder  == Head(token_holders)
             address == holder.proxyWallet
         IN  (IF address = None \/ address = "" THEN <<>>
              ELSE <<[address         |-> address,
                      name            |-> Or(holder.name, holder.pseudonym),
                      profile_image   |-> holder.profileImage,
                      position_amount |->
                          _parse_float(OrZero(holder.amount)).value,
                      outcome_index   |-> holder.outcomeIndex,
                      source          |-> "holders"]>>)
             \o HoldersOfToken(Tail(token_holders))

RECURSIVE HoldersOf(_)
HoldersOf(data) ==
    IF data = <<>> THEN <<>>
    ELSE HoldersOfToken(Head(data).holders) \o HoldersOf(Tail(data))

\* The OverflowError of float() on the amount of a holder with a wallet: it
\* leaves the loops over the payload
HoldersRaise(data) ==
    \E t \in 1..Len(data) : \E h \in 1..Len(data[t].holders) :
        LET holder == data[t].holders[h]
        IN  /\ holder.proxyWallet \notin {None, ""}
            /\ _parse_float(OrZero(holder.amount)).raised

\* top_holders = holders sorted by position_amount, first max(1, top_n)
TopHolders(data, n) ==
    Take(SortDescBy(HoldersOf(data), "position_amount"), Max(1, n))

-----------------------------------------------------------------------------
(* _fetch_top_traders: the trades path *)

\* Time is counted in days since the epoch: an integer timestamp is a number
\* of days where the API gives seconds, and 1000 times that where it gives
\* milliseconds.
UtcNow == 20000

\* timedelta(days=days) with the default days = 7
LookbackDays == 7

cutoff == UtcNow - LookbackDays

\* 10**12, the value above which an integer timestamp is taken to be in
\* milliseconds, in the unit integer timestamps have here (10**12 / 86400)
MillisThreshold == 11574074

\* str(value).strip().lower() on the identifiers that occur
Normalized(value) ==
    CASE value = "MY-MARKET " -> "my-market"
      [] value = "0xC0ND"     -> "0xc0nd"
      [] OTHER                -> value

\* str(value).upper() on the sides that occur
Upper(value) ==
    CASE value = "buy"  -> "BUY"
      [] value = "sell" -> "SELL"
      [] OTHER          -> value

\* value.lower() on the outcomes that occur
Lower(value) ==
    CASE value = "Yes"  -> "yes"
      [] value = "No"   -> "no"
      [] value = "Up"   -> "up"
      [] value = "Down" -> "down"
      [] value = "Maybe" -> "maybe"
      [] OTHER          -> value

market_keys == {Normalized(market.slug), Normalized(market.id)} \ {None}

\* Mutant: every record is taken to belong to the market
trade_matches_market_any(trade) == TRUE

trade_matches_market(trade) ==
    LET trade_fields == {trade.slug, trade.conditionId}
        normalized   == {Normalized(value) :
                            value \in {v \in trade_fields : v # None /\ v # ""}}
    IN  normalized # {} /\ normalized \cap market_keys # {}

\* The timestamp of a trade: parsed is FALSE when the record is skipped
\* (missing, zero or not an ISO string); aware is TRUE when fromisoformat
\* returned a datetime with a UTC offset; raises is TRUE when
\* utcfromtimestamp raises ValueError, the integer being a day before year 1
\* (day -719162) or after year 9999 (day 2932896)
ParseTimestamp(ts_val) ==
    IF ts_val.kind = "none" \/ (ts_val.kind = "int" /\ ts_val.n = 0)
    THEN [parsed |-> FALSE, aware |-> FALSE, raises |-> FALSE, time |-> 0]
    ELSE IF ts_val.kind = "int"
    THEN LET ts_int == IF ts_val.n > MillisThreshold THEN ts_val.n \div 1000
                       ELSE ts_val.n
         IN  [parsed |-> TRUE, aware |-> FALSE,
              raises |-> ts_int < 0 - 719162 \/ ts_int > 2932896,
              time   |-> ts_int]
    ELSE IF ts_val.form = "iso_naive"
    THEN [parsed |-> TRUE, aware |-> FALSE, raises |-> FALSE, time |-> ts_val.n]
    ELSE IF ts_val.form \in {"iso_z", "iso_offset"}
    THEN [parsed |-> TRUE, aware |-> TRUE, raises |-> FALSE, time |-> ts_val.n]
    ELSE [parsed |-> FALSE, aware |-> FALSE, raises |-> FALSE, time |-> 0]

\* A float of the trades path (size, price, notional, volume) is held as an
\* integer: 1000 times the decimal with one place that it is nearest to, plus
\* the number of doubles by which it lies above the double nearest to that
\* decimal.  100000 is 100.0, 100 is 0.1 and 301 is 0.30000000000000004, the
\* double after 0.3.  The integers are in the order of the floats.
Float(units, tenths) == 1000 * units + 100 * tenths

\* a + b as Python adds two floats, on the volumes that the records of the
\* model add up to: the sum of the decimals, moved to the double that the
\* addition rounds to.  0.1 + 0.2 is the double after 0.3, and that double
\* + 0.1 is 0.4; a sum not listed is the double nearest to the decimal sum.
FloatAdd(a, b) ==
    LET pair == IF a <= b THEN <<a, b>> ELSE <<b, a>>
        RoundsAbove == {<<100, 200>>, <<200, 400>>, <<300, 899>>}
        RoundsBelow == {<<100, 301>>, <<100, 700>>, <<200, 301>>,
                        <<200, 601>>, <<200, 700>>, <<300, 600>>,
                        <<301, 301>>, <<301, 500>>, <<301, 600>>}
    IN  IF pair \in RoundsAbove THEN a + b + 1
        ELSE IF pair \in RoundsBelow THEN a + b - 1
        ELSE a + b

\* _parse_trade_value: the explicit value when there is one, else size * price
\* (an optional number is <<>> when absent and <<n>> when present); the
\* sizes and prices of the model are whole numbers, whose product is exact
_parse_trade_value(trade, size, price) ==
    IF trade.value # <<>> THEN trade.value[1] ELSE (size * price) \div 1000

\* Mutant: the bias thresholds compared with >= instead of >
Bias_inclusive(bullish, bearish) ==
    IF 10 * bullish >= 11 * bearish THEN "bullish"
    ELSE IF 10 * bearish >= 11 * bullish THEN "bearish"
    ELSE "mixed"

\* bullish > bearish * 1.1 / bearish > bullish * 1.1.  On the volumes of the
\* model x * 1.1 is a double at or just above the decimal product, further
\* from every other volume than any volume is from its decimal, so that the
\* comparison of the floats is the comparison of the integers.
Bias(bullish, bearish) ==
    IF 10 * bullish > 11 * bearish THEN "bullish"
    ELSE IF 10 * bearish > 11 * bullish THEN "bearish"
    ELSE "mixed"

Index(aggs, address) ==
    IF \E i \in 1..Len(aggs) : aggs[i].address = address
    THEN CHOOSE i \in 1..Len(aggs) : aggs[i].address = address
    ELSE 0

\* One iteration of "for trade in trades" (size and price are numbers, or
\* absent and then read as 0): what: "skip" (continue),
\* "raise" (an exception leaves _fetch_top_traders) or "add"; aggregates: the
\* dict after the iteration
ProcessTrade(aggs, trade) ==
    LET ts          == ParseTimestamp(trade.timestamp)
        side        == Upper(trade.side)
        outcome     == Lower(trade.outcome)
        is_yes      == outcome \in {"yes", "up"}
        is_no       == outcome \in {"no", "down"}
        is_bullish  == (side = "BUY" /\ is_yes) \/ (side = "SELL" /\ is_no)
        size        == IF trade.size = <<>> THEN 0 ELSE trade.size[1]
        price       == IF trade.price = <<>> THEN 0 ELSE trade.price[1]
        volume      == _parse_trade_value(trade, size, price)
        address     == Or(trade.proxyWallet, Or(trade.wallet, trade.address))
        name        == Or(trade.name, trade.pseudonym)
        skip        == [what |-> "skip", aggregates |-> aggs]
        i           == Index(aggs, address)
        agg         == IF i = 0
                       THEN [address        |-> address,
                             name           |-> name,
                             total_volume   |-> 0,
                             trade_count    |-> 0,
                             bullish_volume |-> 0,
                             bearish_volume |-> 0,
                             last_trade_at  |-> ts.time]
                       ELSE aggs[i]
        updated     == [agg EXCEPT
                          !.total_volume   = FloatAdd(@, volume),
                          !.trade_count    = @ + 1,
                          !.bullish_volume = IF is_bullish
                                             THEN FloatAdd(@, volume) ELSE @,
                          !.bearish_volume = IF is_bullish THEN @
                                             ELSE FloatAdd(@, volume),
                          !.last_trade_at  = IF ts.time > @ THEN ts.time ELSE @,
                          !.name           = IF @ \in {None, ""} /\ name \notin {None, ""}
                                             THEN name ELSE @]
    IN  IF ~trade_matches_market(trade) THEN skip
        ELSE IF ~ts.parsed THEN skip
        ELSE IF ts.raises \/ ts.aware
        THEN \* utcfromtimestamp raises, or trade_time < cutoff compares an
             \* aware with a naive datetime
             [what |-> "raise", aggregates |-> aggs]
        ELSE IF ts.time < cutoff THEN skip
        ELSE IF side \notin {"BUY", "SELL"} THEN skip
        ELSE IF volume <= 0 THEN skip
        ELSE IF address = None \/ address = "" THEN skip
        ELSE [what |-> "add",
              aggregates |-> IF i = 0 THEN Append(aggs, updated)
                             ELSE [aggs EXCEPT ![i] = updated]]

\* Mutant: the aggregates cut to top_n without sorting them
TopTraders_unsorted(aggs, n) == Take(aggs, n)

\* top_traders = aggregates' values sorted by total_volume, first top_n
TopTraders(aggs, n) == Take(SortDescBy(aggs, "total_volume"), n)

\* A record with the keys of extra added (or overwritten)
Extend(r, extra) ==
    [k \in DOMAIN r \cup DOMAIN extra |->
        IF k \in DOMAIN extra THEN extra[k] ELSE r[k]]

\* stats_map.get(address, (0.0, 0.0, 0.0))
StatsOf(map, address) ==
    IF address \in DOMAIN map THEN map[address] ELSE <<0, 0, 0>>

\* The loop that puts bias and the global stats on each of top_traders
WithBiasAndStats(traders, map) ==
    [i \in 1..Len(traders) |->
        Extend(traders[i],
               [bias          |-> Bias(traders[i].bullish_volume,
                                       traders[i].bearish_volume),
                global_pnl    |-> StatsOf(map, traders[i].address)[1],
                global_roi    |-> StatsOf(map, traders[i].address)[2],
                total_balance |-> StatsOf(map, traders[i].address)[3]])]

\* The loop that puts the global stats on each of top_holders
WithStats(holders, map) ==
    [i \in 1..Len(holders) |->
        Extend(holders[i],
               [global_pnl    |-> StatsOf(map, holders[i].address)[1],
                global_roi    |-> StatsOf(map, holders[i].address)[2],
                total_balance |-> StatsOf(map, holders[i].address)[3]])]

\* stats_map = {address: (pnl, roi, balance) for ... in stats_results}: the
\* last result of an address wins
StatsMap(stats_results) ==
    [address \in {stats_results[i][1] : i \in 1..Len(stats_results)} |->
        LET last == CHOOSE i \in 1..Len(stats_results) :
                       /\ stats_results[i][1] = address
                       /\ \A j \in (i + 1)..Len(stats_results) :
                             stats_results[j][1] # address
        IN  stats_results[last][2]]

-----------------------------------------------------------------------------
(* _fetch_top_traders: the global stats of a wallet *)

\* _extract_position_pnl: the first pnl key that is present, else realized
\* plus unrealized
_extract_position_pnl(position) ==
    IF position.cashPnl.kind # "null"
    THEN _parse_float(position.cashPnl)
    ELSE _parse_float(OrZero(position.realizedPnl))

\* _extract_position_value: the first value key that parses to a positive
\* number, else initialValue + cashPnl when that is positive
_extract_position_value(position) ==
    LET parsed      == _parse_float(position.currentValue)
        initial_val == _parse_float(OrZero(position.initialValue))
        cash_pnl    == _parse_float(OrZero(position.cashPnl))
        fallback    == initial_val.value + cash_pnl.value
    IN  IF position.currentValue.kind # "null" /\ parsed.raised
        THEN [raised |-> TRUE, value |-> 0]
        ELSE IF position.currentValue.kind # "null" /\ parsed.value > 0
        THEN [raised |-> FALSE, value |-> parsed.value]
        ELSE IF initial_val.raised \/ cash_pnl.raised
        THEN [raised |-> TRUE, value |-> 0]
        ELSE [raised |-> FALSE, value |-> IF fallback > 0 THEN fallback ELSE 0]

\* The loop of _compute_global_stats over positions, from the totals so far
RECURSIVE OpenTotals(_, _)
OpenTotals(positions, totals) ==
    IF positions = <<>> \/ totals.raised THEN totals
    ELSE LET position    == Head(positions)
             pnl         == _extract_position_pnl(position)
             initial_val == _parse_float(OrZero(position.initialValue))
             value       == _extract_position_value(position)
         IN  IF position.kind # "dict"
             THEN OpenTotals(Tail(positions), totals)
             ELSE IF pnl.raised \/ initial_val.raised \/ value.raised
             THEN [totals EXCEPT !.raised = TRUE]
             ELSE OpenTotals(Tail(positions),
                     [raised           |-> FALSE,
                      global_pnl       |-> totals.global_pnl + pnl.value,
                      total_cost_basis |-> totals.total_cost_basis
                                           + (IF initial_val.value > 0
                                              THEN initial_val.value ELSE 0),
                      total_balance    |-> totals.total_balance + value.value])

\* The loop of _compute_global_stats over closed_positions
RECURSIVE ClosedTotals(_, _)
ClosedTotals(closed_positions, totals) ==
    IF closed_positions = <<>> \/ totals.raised THEN totals
    ELSE LET position     == Head(closed_positions)
             pnl          == _extract_position_pnl(position)
             total_bought == _parse_float(OrZero(position.totalBought))
         IN  IF position.kind # "dict"
             THEN ClosedTotals(Tail(closed_positions), totals)
             ELSE IF pnl.raised \/ total_bought.raised
             THEN [totals EXCEPT !.raised = TRUE]
             ELSE ClosedTotals(Tail(closed_positions),
                     [totals EXCEPT
                        !.global_pnl       = @ + pnl.value,
                        !.total_cost_basis = @ + (IF total_bought.value > 0
                                                  THEN total_bought.value ELSE 0)])

\* _compute_global_stats: (global_pnl, global_roi, total_balance), or the
\* exception that left it.  Amounts are whole units and the inputs make
\* global_pnl * 100 a multiple of total_cost_basis.
_compute_global_stats(positions, closed_positions) ==
    LET totals  == ClosedTotals(closed_positions,
                      OpenTotals(positions,
                         [raised |-> FALSE, global_pnl |-> 0,
                          total_cost_basis |-> 0, total_balance |-> 0]))
        balance == IF totals.total_balance <= 0 /\ totals.total_cost_basis > 0
                   THEN Max(0, totals.total_cost_basis + totals.global_pnl)
                   ELSE totals.total_balance
        roi     == IF totals.total_cost_basis > 0
                   THEN (totals.global_pnl * 100) \div totals.total_cost_basis
                   ELSE 0
    IN  IF totals.raised THEN [raised |-> TRUE, stats |-> <<0, 0, 0>>]
        ELSE [raised |-> FALSE, stats |-> <<totals.global_pnl, roi, balance>>]

\* A JSON list
List(items) == [kind |-> "list", items |-> items]

\* One try block around a GET: the parsed body of a 200 answer, else what the
\* local was initialised with (also when the request or r.json() raises)
Fetched(r, initial) ==
    IF r.raises \/ r.status_code # 200 \/ r.json.kind = "invalid"
    THEN initial
    ELSE r.json

\* x if isinstance(x, list) else []
ListOrEmpty(json) == IF json.kind = "list" THEN json.items ELSE <<>>

\* value_total of the third try block: a failure of the request, of the
\* payload's shape or of _parse_float leaves 0.0
value_total(r) ==
    LET payload == Fetched(r, List(<<>>))
        first   == payload.items[1]
        parsed  == _parse_float(OrZero(first.value))
    IN  IF payload.kind # "list" \/ payload.items = <<>> THEN 0
        ELSE IF first.kind # "dict" \/ parsed.raised THEN 0
        ELSE parsed.value

\* fetch_user_stats(address): what it returns for the three answers of the
\* stats API, or the exception that left it
fetch_user_stats(responses) ==
    LET positions        == ListOrEmpty(Fetched(responses.positions, List(<<>>)))
        closed_positions == ListOrEmpty(Fetched(responses.closed, List(<<>>)))
        value            == value_total(responses.value)
        computed         == _compute_global_stats(positions, closed_positions)
    IN  IF computed.raised THEN computed
        ELSE [raised |-> FALSE,
              stats  |-> <<computed.stats[1], computed.stats[2],
                           IF value > 0 THEN value ELSE computed.stats[3]>>]

\* enrich(address) of the holders path: the same three calls
enrich(responses) == fetch_user_stats(responses)

\* The addresses of a list of entries, in order
Addresses(entries) == [i \in 1..Len(entries) |-> entries[i].address]

-----------------------------------------------------------------------------
(* _fetch_top_traders: inputs *)

\* Bounds: tokens in a /holders payload, holders listed per token, trade
\* records the aggregation accepts
MaxTokens == 2

MaxHoldersPerToken == 2

MaxTrades == 3

HolderInputs(outcomeIndex) ==
    {[proxyWallet |-> w, name |-> None, pseudonym |-> "Swift-Otter",
      profileImage |-> None, amount |-> a, outcomeIndex |-> outcomeIndex] :
        w \in {"0xaaa", "0xbbb"}, a \in {Num(5), Num(7)}}
    \cup {[proxyWallet |-> None, name |-> None, pseudonym |-> None,
           profileImage |-> None, amount |-> Num(5),
           outcomeIndex |-> outcomeIndex]}

\* The JSON lists /holders answers with: one object per outcome token, each
\* listing a wallet at most once
HolderLists ==
    {s \in UNION {[1..k -> HolderInputs(0)] : k \in 0..MaxHoldersPerToken} :
        \A j \in 1..Len(s) : \A h \in 1..(j - 1) :
            s[h].proxyWallet # s[j].proxyWallet}

\* The JSON list of a 200 answer whose tokens list these holders
HoldersPayload(lists) ==
    [i \in 1..Len(lists) |->
        [holders |-> [j \in 1..Len(lists[i]) |->
                        [lists[i][j] EXCEPT !.outcomeIndex = i - 1]]]]

\* Answers of the stats API
Ok(json) == [raises |-> FALSE, status_code |-> 200, json |-> json]

NoJson == [kind |-> "invalid", items |-> <<>>]

RequestFails == [raises |-> TRUE, status_code |-> 0, json |-> NoJson]

Position(cashPnl, initialValue, currentValue, realizedPnl, totalBought) ==
    [kind |-> "dict", cashPnl |-> cashPnl, initialValue |-> initialValue,
     currentValue |-> currentValue, realizedPnl |-> realizedPnl,
     totalBought |-> totalBought]

ValueItem(value) == [kind |-> "dict", value |-> value]

\* What the three calls for one wallet are answered with: every subset of
\* them failing, or one of them answering with a status other than 200 or
\* with a 200 whose body is not what the code expects
EnrichmentResponses ==
    LET Status500 == [raises |-> FALSE, status_code |-> 500, json |-> NoJson]
        Dict == [kind |-> "dict", items |-> <<>>]
        NotADict == [kind |-> "str"]
        OpenPosition == Position(Num(50), Num(200), Num(300), Null, Null)
        ClosedPosition == Position(Null, Null, Null, Num(30), Num(200))
        PositionsOk == Ok(List(<<OpenPosition>>))
        ClosedOk == Ok(List(<<ClosedPosition>>))
        ValueOk == Ok(List(<<ValueItem(Num(500))>>))
        MalformedPositions ==
            {Status500, Ok(Dict), Ok(NoJson),
             Ok(List(<<NotADict, OpenPosition>>)),
             Ok(List(<<Position(Text, Text, Text, Null, Null)>>)),
             Ok(List(<<Position(Num(50), Huge, Num(300), Null, Null)>>))}
        MalformedValues ==
            {Ok(Dict), Ok(List(<<>>)), Ok(List(<<NotADict>>)),
             Ok(List(<<ValueItem(Huge)>>))}
    IN  {[positions |-> p, closed |-> c, value |-> v] :
            p \in {PositionsOk, RequestFails},
            c \in {ClosedOk, RequestFails},
            v \in {ValueOk, RequestFails}}
        \cup {[positions |-> p, closed |-> ClosedOk, value |-> ValueOk] :
                p \in MalformedPositions}
        \cup {[positions |-> PositionsOk, closed |-> ClosedOk, value |-> v] :
                v \in MalformedValues}

\* The timestamp of a record: an integer of seconds or of milliseconds
\* (kind "int"), or a string (kind "str") in the form named, for the time n
Timestamp(kind, form, n) == [kind |-> kind, form |-> form, n |-> n]

Trade(slug, conditionId, ts, side, outcome, amount, owner) ==
    [slug |-> slug, conditionId |-> conditionId, timestamp |-> ts,
     side |-> side, outcome |-> outcome,
     size |-> amount.size, price |-> amount.price, value |-> amount.value,
     proxyWallet |-> owner.proxyWallet, wallet |-> owner.wallet,
     address |-> None, name |-> owner.name, pseudonym |-> None]

PositiveAmounts ==
    {[size |-> <<Float(10, 0)>>, price |-> <<Float(10, 0)>>, value |-> <<>>],
     [size |-> <<Float(1, 0)>>,  price |-> <<Float(1, 0)>>,  value |-> <<Float(109, 0)>>],
     [size |-> <<Float(1, 0)>>,  price |-> <<Float(1, 0)>>,  value |-> <<Float(110, 0)>>],
     [size |-> <<Float(1, 0)>>,  price |-> <<Float(1, 0)>>,  value |-> <<Float(111, 0)>>]}

\* Records that pass every filter: the first wallet trades every whole
\* amount on either side; the second buys 0.1 of Yes, and 0.2 and 0.3 of No
AcceptableTrades ==
    {Trade("MY-MARKET ", None, Timestamp("int", "", UtcNow - 1),
           side, outcome, amount, owner) :
        side \in {"BUY", "sell"},
        outcome \in {"Yes", "No", "Maybe"},
        amount \in PositiveAmounts,
        owner \in {[proxyWallet |-> "0xaaa", wallet |-> None, name |-> "alice"]}}
    \cup
    {Trade("MY-MARKET ", None, Timestamp("int", "", UtcNow - 1), "BUY",
           IF tenths = 1 THEN "Yes" ELSE "No",
           [size |-> <<>>, price |-> <<>>, value |-> <<Float(0, tenths)>>],
           [proxyWallet |-> None, wallet |-> "0xbbb", name |-> None]) :
        tenths \in 1..3}

BaseTrade ==
    Trade("MY-MARKET ", None, Timestamp("int", "", UtcNow - 1), "BUY", "Yes",
          [size |-> <<Float(10, 0)>>, price |-> <<Float(10, 0)>>, value |-> <<>>],
          [proxyWallet |-> "0xaaa", wallet |-> None, name |-> "alice"])

\* The base record with one field changed
VariantTrades ==
    {[BaseTrade EXCEPT !.slug = None, !.conditionId = "0xC0ND"],
     [BaseTrade EXCEPT !.slug = "other-market"],
     [BaseTrade EXCEPT !.slug = None],
     [BaseTrade EXCEPT !.timestamp = Timestamp("int", "", 1000 * (UtcNow - 4))],
     [BaseTrade EXCEPT !.timestamp = Timestamp("str", "iso_naive", UtcNow - 4)],
     [BaseTrade EXCEPT !.timestamp = Timestamp("int", "", UtcNow)],
     [BaseTrade EXCEPT !.timestamp = Timestamp("int", "", cutoff)],
     [BaseTrade EXCEPT !.timestamp = Timestamp("int", "", cutoff - 1)],
     [BaseTrade EXCEPT !.timestamp = Timestamp("int", "", 1000 * (cutoff - 1))],
     [BaseTrade EXCEPT !.timestamp = Timestamp("str", "iso_naive", cutoff - 1)],
     [BaseTrade EXCEPT !.timestamp = Timestamp("str", "iso_z", UtcNow - 1)],
     [BaseTrade EXCEPT !.timestamp = Timestamp("str", "garbage", 0)],
     [BaseTrade EXCEPT !.timestamp = Timestamp("none", "", 0)],
     [BaseTrade EXCEPT !.timestamp = Timestamp("int", "", 0)],
     [BaseTrade EXCEPT !.timestamp = Timestamp("int", "", 2932897)],
     [BaseTrade EXCEPT !.side = "MINT"],
     [BaseTrade EXCEPT !.value = <<0>>],
     [BaseTrade EXCEPT !.size = <<Float(0 - 2, 0)>>],
     [BaseTrade EXCEPT !.size = <<>>],
     [BaseTrade EXCEPT !.price = <<>>, !.value = <<Float(109, 0)>>],
     [BaseTrade EXCEPT !.proxyWallet = None]}

TradeInputs == AcceptableTrades \cup VariantTrades

Pending == [status |-> "pending", traders |-> <<>>]

\* A call of _fetch_top_traders with top_n 1 or 2: the entries are cut to
\* one, or to two where there are more
TraderInit ==
    /\ tpc = "start"
    /\ top_n \in {1, 2}
    /\ aggregates = <<>>
    /\ top = <<>>
    /\ stats_map = <<>>
    /\ fetch_result = Pending
    /\ pc = "idle"
    /\ config = [none |-> TRUE, flags |-> <<>>]
    /\ graph = NoGraph
    /\ frontier = {}
    /\ state = initial_state("", <<>>, <<>>, <<>>)
    /\ executed = <<>>
    /\ errors = <<>>
    /\ llm_calls = <<>>
    /\ response = NoResponse
    /\ tk_pc = "idle"
    /\ tk_in = <<>>
    /\ tk_out = <<>>
    /\ cache = {}
    /\ clock = 0
    /\ cache_call = <<>>
    /\ last_set = {}
    /\ pos_pc = "idle"
    /\ max_pages = 0
    /\ collected = <<>>
    /\ seen_ids = {}
    /\ cursor = None
    /\ offset = 0
    /\ page = 0
    /\ requests = <<>>
    /\ page_response = <<>>
    /\ tasks = <<>>
    /\ semaphore = [enrich |-> 0, fetch_user_stats |-> 0]

-----------------------------------------------------------------------------
(* _fetch_top_traders: steps *)

\* asyncio.gather(*[coro(entry["address"]) for entry in ...]): one task per
\* entry, in the order of the entries, none started; coro is enrich on the
\* holders path and fetch_user_stats on the trades path
Tasks(entries, coro) ==
    [i \in 1..Len(entries) |->
        [address |-> entries[i].address, coro |-> coro, pc |-> "waiting",
         result |-> <<>>]]

\* identifiers: the slug, then the id when it is another value
identifiers ==
    LET slug == IF market.slug \notin {None, ""} THEN <<market.slug>> ELSE <<>>
    IN  IF market.id \notin {None, ""} /\ market.id \notin Range(slug)
        THEN Append(slug, market.id) ELSE slug

\* GET /holders: with holders, rank them, create the semaphore and the tasks
\* that enrich them; without (request error, status other than 200, an
\* amount that float() raises on, no holder with a wallet) fall back to the
\* trades
HoldersFetched(resp) ==
    /\ IF /\ ~resp.raises
          /\ resp.status_code = 200
          /\ ~HoldersRaise(resp.data)
          /\ HoldersOf(resp.data) # <<>>
       THEN /\ top' = TopHolders(resp.data, top_n)
            /\ tpc' = "enrich_holders"
            /\ tasks' = Tasks(TopHolders(resp.data, top_n), "enrich")
            /\ semaphore' = [semaphore EXCEPT !.enrich = 8]
       ELSE /\ tpc' = "fetch_trades"
            /\ UNCHANGED <<top, tasks, semaphore>>
    /\ UNCHANGED <<top_n, aggregates, stats_map, fetch_result, pipeline_vars,
                   toolkit_vars, cache_vars, positions_vars>>

FetchHolders ==
    /\ tpc = "start"
    /\ \/ \E resp \in {[raises |-> TRUE,  status_code |-> 0,   data |-> <<>>],
                       [raises |-> FALSE, status_code |-> 503, data |-> <<>>]} :
             HoldersFetched(resp)
       \/ \E k \in 0..MaxTokens : \E lists \in [1..k -> HolderLists] :
             HoldersFetched([raises |-> FALSE, status_code |-> 200,
                             data |-> HoldersPayload(lists)])
       \/ \E amount \in {Null, Text, [kind |-> "numstr", n |-> 7], Huge},
             first \in {"0xaaa", "0xbbb", None} :
             LET Holder(w, a) ==
                     [proxyWallet |-> w, name |-> None,
                      pseudonym |-> "Swift-Otter", profileImage |-> None,
                      amount |-> a, outcomeIndex |-> 0]
                 other == IF first = "0xaaa" THEN "0xbbb" ELSE "0xaaa"
             IN  HoldersFetched([raises |-> FALSE, status_code |-> 200,
                                 data |-> <<[holders |->
                                               <<Holder(first, amount),
                                                 Holder(other, Num(5))>>]>>])

\* The coroutine of the gather that _fetch_top_traders is awaiting
Awaited ==
    CASE tpc = "enrich_holders" -> "enrich"
      [] tpc = "enrich_traders" -> "fetch_user_stats"
      [] OTHER                  -> None

\* A task that the event loop has ready to run: it waits for a semaphore that
\* has a place.  The loop runs such a task before it looks at an answer of
\* the network that has not come in yet, and before it wakes the coroutine
\* that awaits the gather.  No task runs while _fetch_top_traders is in the
\* loop over the trades, which has no await.
Ready == \E i \in 1..Len(tasks) :
            tasks[i].pc = "waiting" /\ semaphore[tasks[i].coro] > 0

\* async with semaphore, entered: a semaphore admits its waiters in the order
\* they came, which is the order gather created the tasks in.  A task runs
\* whether or not its gather is still awaited.
Acquire ==
    /\ tpc # "aggregate"
    /\ \E i \in 1..Len(tasks) :
          /\ tasks[i].pc = "waiting"
          /\ semaphore[tasks[i].coro] > 0
          /\ \A j \in 1..(i - 1) :
                tasks[j].coro = tasks[i].coro => tasks[j].pc # "waiting"
          /\ tasks' = [tasks EXCEPT ![i].pc = "in_flight"]
          /\ semaphore' = [semaphore EXCEPT ![tasks[i].coro] = @ - 1]
    /\ UNCHANGED <<pipeline_vars, trader_vars, toolkit_vars, cache_vars,
                   positions_vars>>

\* The rest of a task, from its last answer on: the semaphore is left, the
\* stats are computed and the task returns (address, pnl, roi, balance) or
\* ends with the exception of _compute_global_stats.  The three lookups are
\* one stay under the semaphore; the task touches neither the entries nor
\* stats_map.  The first task of the awaited gather is answered with any of
\* EnrichmentResponses; the second with the payloads the code expects, with
\* every request failing, or with a position whose initialValue is too large
\* for a float; the others with the payloads the code expects.  A task of a
\* gather that has raised ends the same way, but nothing holds the task or
\* reads its result any more: it leaves the list.  The answers of a task of
\* the awaited gather come in after the tasks created with it have run up to
\* the semaphore.  The last answer of a task left over by an earlier gather
\* may have come in together with the answer that _fetch_top_traders waited
\* for: the task then ends before the first of the new tasks runs, or else
\* after they have all run up to the semaphore.
Complete ==
    /\ tpc # "aggregate"
    /\ \E i \in 1..Len(tasks) :
          /\ tasks[i].pc = "in_flight"
          /\ \/ ~Ready
             \/ /\ tasks[i].coro # Awaited
                /\ \A j \in 1..Len(tasks) :
                      tasks[j].coro = Awaited => tasks[j].pc = "waiting"
          /\ semaphore' = [semaphore EXCEPT ![tasks[i].coro] = @ + 1]
          /\ IF tasks[i].coro # Awaited
             THEN tasks' = SubSeq(tasks, 1, i - 1)
                               \o SubSeq(tasks, i + 1, Len(tasks))
             ELSE LET Answers(initialValue) ==
                          [positions |->
                               Ok(List(<<Position(Num(50), initialValue,
                                                  Num(300), Null, Null)>>)),
                           closed    |->
                               Ok(List(<<Position(Null, Null, Null, Num(30),
                                                  Num(200))>>)),
                           value     |-> Ok(List(<<ValueItem(Num(500))>>))]
                      nth == Cardinality({j \in 1..i :
                                             tasks[j].coro = tasks[i].coro})
                      answers ==
                          IF nth = 1 THEN EnrichmentResponses
                          ELSE IF nth = 2
                          THEN {Answers(Num(200)), Answers(Huge),
                                [positions |-> RequestFails,
                                 closed |-> RequestFails,
                                 value |-> RequestFails]}
                          ELSE {Answers(Num(200))}
                  IN  \E responses \in answers :
                         LET outcome == IF tasks[i].coro = "enrich"
                                        THEN enrich(responses)
                                        ELSE fetch_user_stats(responses)
                         IN  tasks' = [tasks EXCEPT
                                          ![i].pc = IF outcome.raised THEN "failed"
                                                    ELSE "done",
                                          ![i].result = <<outcome.stats>>]
    /\ UNCHANGED <<pipeline_vars, trader_vars, toolkit_vars, cache_vars,
                   positions_vars>>

\* await gather(...) returns once every task of the gather has returned, and
\* stats_map is built from the results in the order of the tasks; the
\* async with of the client is then left, which is an await: the tasks left
\* over by an earlier gather may run before the entries get their stats
GatherReturns ==
    /\ tpc \in {"enrich_holders", "enrich_traders"}
    /\ ~Ready
    /\ LET gathered == SelectSeq(tasks, LAMBDA task : task.coro = Awaited)
           stats_results == [i \in 1..Len(gathered) |->
                               <<gathered[i].address, gathered[i].result[1]>>]
       IN  /\ \A i \in 1..Len(gathered) : gathered[i].pc = "done"
           /\ stats_map' = StatsMap(stats_results)
    /\ tpc' = IF tpc = "enrich_holders" THEN "exit_client2" ELSE "exit_client"
    /\ UNCHANGED <<top_n, aggregates, top, fetch_result, pipeline_vars,
                   toolkit_vars, cache_vars, positions_vars, enrich_vars>>

\* The loop after the async with stores the stats (and on the trades path
\* the bias) on the entries.  On the trades path the entries are the dicts
\* that aggregates holds, what the loop stores on them is stored in
\* aggregates, and the entries are returned.  On the holders path
\* "return top_holders" is inside the async with of the first client: the
\* entries are returned only when that client has been left, an await.
StoreStats ==
    /\ tpc \in {"exit_client2", "exit_client"}
    /\ LET entries == IF tpc = "exit_client2"
                      THEN WithStats(top, stats_map)
                      ELSE WithBiasAndStats(top, stats_map)
           Stored(agg) ==
               LET i == CHOOSE i \in 1..Len(entries) :
                           entries[i].address = agg.address
               IN  entries[i]
       IN  /\ top' = entries
           /\ aggregates' =
                  [j \in 1..Len(aggregates) |->
                      IF aggregates[j].address \in Range(Addresses(entries))
                      THEN Stored(aggregates[j]) ELSE aggregates[j]]
           /\ IF tpc = "exit_client2"
              THEN /\ tpc' = "return_top_holders"
                   /\ UNCHANGED fetch_result
              ELSE /\ tpc' = "returned"
                   /\ fetch_result' = [status |-> "returned",
                                       traders |-> entries]
    /\ UNCHANGED <<top_n, stats_map, pipeline_vars, toolkit_vars, cache_vars,
                   positions_vars, enrich_vars>>

\* The async with of the first client has been left: top_holders, with the
\* stats stored on them, are returned
ReturnTopHolders ==
    /\ tpc = "return_top_holders"
    /\ tpc' = "returned"
    /\ fetch_result' = [status |-> "returned", traders |-> top]
    /\ UNCHANGED <<top_n, aggregates, top, stats_map, pipeline_vars,
                   toolkit_vars, cache_vars, positions_vars, enrich_vars>>

\* await gather(...) raises as soon as a task of the gather has ended with an
\* exception.  gather neither awaits nor cancels its other tasks: those that
\* have not ended stay with the event loop, under the semaphore they were
\* created with, and go on; those that have ended go with the gather.  On the
\* trades path the exception leaves _fetch_top_traders; on the holders path
\* the except around it goes on to the trades.  The exception passes through
\* the exit of the async with of the client; what the left-over tasks do
\* meanwhile they do in the steps after this one.
GatherRaises ==
    /\ tpc \in {"enrich_holders", "enrich_traders"}
    /\ ~Ready
    /\ \E i \in 1..Len(tasks) :
          tasks[i].coro = Awaited /\ tasks[i].pc = "failed"
    /\ IF tpc = "enrich_holders"
       THEN /\ tpc' = "fetch_trades"
            /\ top' = <<>>
            /\ UNCHANGED fetch_result
       ELSE /\ tpc' = "raised"
            /\ fetch_result' = [status |-> "raised", traders |-> <<>>]
            /\ UNCHANGED top
    /\ tasks' = SelectSeq(tasks, LAMBDA task :
                                    task.pc \in {"waiting", "in_flight"})
    /\ UNCHANGED <<top_n, aggregates, stats_map, semaphore, pipeline_vars,
                   toolkit_vars, cache_vars, positions_vars>>

\* for identifier in identifiers: fetched = await fetch_trades(identifier):
\* one request at a time, the next identifier asked about only when the one
\* before gave no trades (error, status, empty list); none at all returns []
FetchTrades ==
    /\ tpc \in {"fetch_trades", "fetch_trades_next"}
    /\ ~Ready
    /\ LET k == IF tpc = "fetch_trades" THEN 1 ELSE 2
       IN  \E fetched \in {"none", "some"} :
              IF k <= Len(identifiers) /\ fetched = "some"
              THEN /\ tpc' = "aggregate"
                   /\ UNCHANGED fetch_result
              ELSE IF k < Len(identifiers)
              THEN /\ tpc' = "fetch_trades_next"
                   /\ UNCHANGED fetch_result
              ELSE /\ tpc' = "returned"
                   /\ fetch_result' = [status |-> "returned", traders |-> <<>>]
    /\ UNCHANGED <<top_n, aggregates, top, stats_map, pipeline_vars, toolkit_vars,
                   cache_vars, positions_vars, enrich_vars>>

RECURSIVE TotalCount(_)
TotalCount(aggs) ==
    IF aggs = <<>> THEN 0 ELSE Head(aggs).trade_count + TotalCount(Tail(aggs))

\* One iteration of the loop over the fetched trades
AggregateTrade ==
    /\ tpc = "aggregate"
    /\ TotalCount(aggregates) < MaxTrades
    /\ \E trade \in TradeInputs :
          LET step == ProcessTrade(aggregates, trade)
          IN  IF step.what = "raise"
              THEN /\ tpc' = "raised"
                   /\ fetch_result' = [status |-> "raised", traders |-> <<>>]
                   /\ UNCHANGED aggregates
              ELSE /\ aggregates' = step.aggregates
                   /\ UNCHANGED <<tpc, fetch_result>>
    /\ UNCHANGED <<top_n, top, stats_map, pipeline_vars, toolkit_vars,
                   cache_vars, positions_vars, enrich_vars>>

\* After the loop: no aggregates returns [], else rank, cut to top_n and
\* create the semaphore and the tasks that enrich the entries
RankTraders ==
    /\ tpc = "aggregate"
    /\ IF aggregates = <<>>
       THEN /\ tpc' = "returned"
            /\ fetch_result' = [status |-> "returned", traders |-> <<>>]
            /\ UNCHANGED <<top, tasks, semaphore>>
       ELSE /\ tpc' = "enrich_traders"
            /\ top' = TopTraders(aggregates, top_n)
            /\ tasks' = tasks \o Tasks(TopTraders(aggregates, top_n),
                                       "fetch_user_stats")
            /\ semaphore' = [semaphore EXCEPT !.fetch_user_stats = 8]
            /\ UNCHANGED fetch_result
    /\ UNCHANGED <<top_n, aggregates, stats_map, pipeline_vars, toolkit_vars,
                   cache_vars, positions_vars>>

TraderNext ==
    \/ FetchHolders
    \/ FetchTrades
    \/ AggregateTrade
    \/ RankTraders
    \/ Acquire
    \/ Complete
    \/ GatherReturns
    \/ StoreStats
    \/ ReturnTopHolders
    \/ GatherRaises

TraderSpec == TraderInit /\ [][TraderNext]_vars

-----------------------------------------------------------------------------
(* The quantitative toolkit: numbers *)

\* Prices and probabilities are floats on a 0-100 scale.  A function that
\* rounds its results to 2 decimals returns them here in hundredths.

\* round(x, 2) of the double that stands for milli / 1000: to the nearest
\* hundredth; a double that is exactly x.xx5 (a multiple of 1/8) goes to the
\* even neighbour, any other x.xx5 goes where its double lies
Round2(milli, above) ==
    LET q == milli \div 10
        r == milli % 10
    IN  IF r < 5 THEN q
        ELSE IF r > 5 THEN q + 1
        ELSE IF milli % 125 = 0 THEN (IF q % 2 = 0 THEN q ELSE q + 1)
        ELSE IF above THEN q + 1 ELSE q

-----------------------------------------------------------------------------
(* The quantitative toolkit: calculate_implied_probability *)

\* yes_price in thousandths; the results in hundredths.  total is 1 up to
\* the last bit, so that round(vig, 3) is 0
\* DoublesAbove: the prices x.xx5 of the model whose double lies above them;
\* ComplementsAbove: the prices x for which the double 100 - x lies above
\* the decimal 100 - x
calculate_implied_probability(yes_price) ==
    LET DoublesAbove == {5, 25, 35, 12345, 50005, 87655, 99995}
        ComplementsAbove == {5, 35, 12345, 99985}
    IN  [implied_yes_prob |-> Round2(yes_price, yes_price \in DoublesAbove),
         implied_no_prob  |-> Round2(100000 - yes_price, yes_price \in ComplementsAbove),
         vig_percentage   |-> 0,
         breakeven_yes    |-> Round2(yes_price, yes_price \in DoublesAbove),
         breakeven_no     |-> Round2(100000 - yes_price, yes_price \in ComplementsAbove)]

\* Prices in thousandths: the ends of the scale, prices with one, two and
\* three decimals
ImpliedProbability ==
    /\ tk_pc = "ready"
    /\ \E yes_price \in
            {0, 5, 15, 25, 35, 45, 125, 250, 375, 500, 1000, 12340, 12345, 12346,
             33333, 50000, 50005, 66667, 87655, 99985, 99995, 100000} :
          /\ tk_in' = [yes_price |-> yes_price]
          /\ tk_out' = calculate_implied_probability(yes_price)
    /\ tk_pc' = "calculate_implied_probability"
    /\ UNCHANGED <<pipeline_vars, trader_vars, cache_vars, positions_vars, enrich_vars>>

-----------------------------------------------------------------------------
(* The quantitative toolkit: calculate_kelly_criterion *)

\* A Kelly fraction: the ratio num / den (den > 0) that the formula gives in
\* exact arithmetic, and eps, the sign and rank of the rounding error the
\* floats leave where the ratio is 0
Ratio(num, den, eps) == [num |-> num, den |-> den, eps |-> eps]

\* The outcome of a call that raises instead of returning
ZeroDivisionError == [raised |-> "ZeroDivisionError"]

Raised(outcome) == "raised" \in DOMAIN outcome

\* num / den, with the rounding error eps: a division by zero raises
Divide(num, den, eps) ==
    IF den = 0 THEN ZeroDivisionError ELSE Ratio(num, den, eps)

Zero == Ratio(0, 1, 0)

One == Ratio(1, 1, 0)

Greater(a, b) ==
    \/ a.num * b.den > b.num * a.den
    \/ a.num * b.den = b.num * a.den /\ a.eps > b.eps

\* The rounding errors of kelly_yes and kelly_no where estimated_prob equals
\* yes_price, for the prices of KellyInputs: 0 where the floats give 0 or the
\* guard does, else the sign of the residue (2 outranks 1)
KellyNoise(yes_price) ==
    CASE yes_price = 3  -> [yes |-> 1, no |-> 2]
      [] yes_price = 5  -> [yes |-> -1, no |-> 1]
      [] yes_price = 9  -> [yes |-> 1, no |-> -1]
      [] yes_price = 10 -> [yes |-> 0, no |-> -1]
      [] yes_price = 11 -> [yes |-> 1, no |-> -1]
      [] yes_price = 30 -> [yes |-> 1, no |-> 2]
      [] yes_price = 70 -> [yes |-> 0, no |-> 1]
      [] OTHER -> [yes |-> 0, no |-> 0]

\* round(x * scale, digits), as an integer count of the last digit kept:
\* to the nearest, a tie to the even neighbour
RoundRatio(x, scale) ==
    LET n == x.num * scale
        q == n \div x.den
        r == n % x.den
    IN  IF 2 * r < x.den THEN q
        ELSE IF 2 * r > x.den THEN q + 1
        ELSE IF q % 2 = 0 THEN q ELSE q + 1

NoBet == <<"No bet recommended (no edge)">>

\* Mutant: the recommendation names a bet whatever the fraction is
calculate_kelly_criterion_bets_without_edge(yes_price, estimated_prob) ==
    LET noise == IF estimated_prob = yes_price THEN KellyNoise(yes_price)
                 ELSE [yes |-> 0, no |-> 0]
        kelly_yes == IF yes_price > 0 /\ yes_price < 100
                     THEN Divide((estimated_prob - yes_price) * yes_price,
                                 (100 - yes_price) * yes_price, noise.yes)
                     ELSE Zero
        kelly_no == IF 100 - yes_price > 0 /\ 100 - yes_price < 100
                    THEN Divide((yes_price - estimated_prob) * (100 - yes_price),
                                yes_price * (100 - yes_price), noise.no)
                    ELSE Zero
        choice == IF Greater(kelly_yes, kelly_no) /\ Greater(kelly_yes, Zero)
                  THEN [optimal_kelly |-> kelly_yes, optimal_side |-> "YES"]
                  ELSE IF Greater(kelly_no, Zero)
                  THEN [optimal_kelly |-> kelly_no, optimal_side |-> "NO"]
                  ELSE [optimal_kelly |-> Zero, optimal_side |-> "NONE"]
        capped == IF Greater(choice.optimal_kelly, One) THEN One
                  ELSE choice.optimal_kelly
        optimal_kelly == IF Greater(capped, Zero) THEN capped ELSE Zero
    IN  IF Raised(kelly_yes) THEN kelly_yes
        ELSE IF Raised(kelly_no) THEN kelly_no
        ELSE
        [full_kelly     |-> RoundRatio(optimal_kelly, 10000),
         half_kelly     |-> RoundRatio(optimal_kelly, 5000),
         quarter_kelly  |-> RoundRatio(optimal_kelly, 2500),
         optimal_side   |-> choice.optimal_side,
         recommendation |->
             <<"Bet ", RoundRatio(optimal_kelly, 250), "%-",
               RoundRatio(optimal_kelly, 500), "% of bankroll on ",
               choice.optimal_side>>]

\* yes_price and estimated_prob in whole percents; full_kelly, half_kelly and
\* quarter_kelly in hundredths of a percent, the two numbers of the
\* recommendation in tenths.
\* kelly_yes = (b_yes * prob - (1 - prob)) / b_yes with b_yes = (1 - price) /
\* price is (prob - price) / (1 - price); kelly_no, with b_no = price /
\* (1 - price), is (price - prob) / price; each keeps the two divisors of
\* the code, price and 1 - price, in its denominator
calculate_kelly_criterion(yes_price, estimated_prob) ==
    LET noise == IF estimated_prob = yes_price THEN KellyNoise(yes_price)
                 ELSE [yes |-> 0, no |-> 0]
        kelly_yes == IF yes_price > 0 /\ yes_price < 100
                     THEN Divide((estimated_prob - yes_price) * yes_price,
                                 (100 - yes_price) * yes_price, noise.yes)
                     ELSE Zero
        kelly_no == IF 100 - yes_price > 0 /\ 100 - yes_price < 100
                    THEN Divide((yes_price - estimated_prob) * (100 - yes_price),
                                yes_price * (100 - yes_price), noise.no)
                    ELSE Zero
        choice == IF Greater(kelly_yes, kelly_no) /\ Greater(kelly_yes, Zero)
                  THEN [optimal_kelly |-> kelly_yes, optimal_side |-> "YES"]
                  ELSE IF Greater(kelly_no, Zero)
                  THEN [optimal_kelly |-> kelly_no, optimal_side |-> "NO"]
                  ELSE [optimal_kelly |-> Zero, optimal_side |-> "NONE"]
        capped == IF Greater(choice.optimal_kelly, One) THEN One
                  ELSE choice.optimal_kelly
        optimal_kelly == IF Greater(capped, Zero) THEN capped ELSE Zero
    IN  IF Raised(kelly_yes) THEN kelly_yes
        ELSE IF Raised(kelly_no) THEN kelly_no
        ELSE
        [full_kelly     |-> RoundRatio(optimal_kelly, 10000),
         half_kelly     |-> RoundRatio(optimal_kelly, 5000),
         quarter_kelly  |-> RoundRatio(optimal_kelly, 2500),
         optimal_side   |-> choice.optimal_side,
         recommendation |->
             IF Greater(optimal_kelly, Ratio(1, 100, 0))
             THEN <<"Bet ", RoundRatio(optimal_kelly, 250), "%-",
                    RoundRatio(optimal_kelly, 500), "% of bankroll on ",
                    choice.optimal_side>>
             ELSE NoBet]

\* Prices and estimates in whole percents: the ends of the scale and prices
\* between them against every estimate that is a multiple of 5, and three
\* more prices with the estimate equal to the price
KellyCriterion ==
    /\ tk_pc = "ready"
    /\ \E in \in ({0, 5, 10, 25, 30, 50, 70, 75, 90, 95, 100} \X {5 * k : k \in 0..20})
                    \cup {<<3, 3>>, <<9, 9>>, <<11, 11>>} :
          /\ tk_in' = [yes_price |-> in[1], estimated_prob |-> in[2]]
          /\ tk_out' = calculate_kelly_criterion(in[1], in[2])
    /\ tk_pc' = "calculate_kelly_criterion"
    /\ UNCHANGED <<pipeline_vars, trader_vars, cache_vars, positions_vars, enrich_vars>>

-----------------------------------------------------------------------------
(* The quantitative toolkit: price series *)

\* A series holds prices in whole percents; sum, max, min and sorted are
\* Python's
RECURSIVE sum(_)
sum(prices) ==
    IF prices = <<>> THEN 0 ELSE prices[1] + sum(Tail(prices))

max(prices) == CHOOSE p \in Range(prices) : \A other \in Range(prices) : other <= p

min(prices) == CHOOSE p \in Range(prices) : \A other \in Range(prices) : p <= other

\* n * n * variance, where variance = sum((p - mean) ** 2) / n and
\* mean = sum(prices) / n
ScaledVariance(prices) ==
    Len(prices) * sum([i \in 1..Len(prices) |-> prices[i] * prices[i]])
        - sum(prices) * sum(prices)

\* round(math.sqrt(v / (n * n)), 2) in hundredths: the h nearest to
\* 100 * sqrt(v) / n, the even one of two that are equally near
RoundSqrt(v, n, bound) ==
    LET near == {h \in 0..bound :
                    /\ h = 0 \/ (2 * h - 1) * (2 * h - 1) * n * n <= 40000 * v
                    /\ 40000 * v <= (2 * h + 1) * (2 * h + 1) * n * n}
    IN  CHOOSE h \in near : Cardinality(near) = 1 \/ h % 2 = 0

-----------------------------------------------------------------------------
(* The quantitative toolkit: analyze_price_volatility *)

\* Mutant: the regime thresholds compared with <= instead of <
analyze_price_volatility_inclusive(prices) ==
    IF Len(prices) < 2
    THEN [std_dev           |-> 0,
          mean              |-> 5000,
          volatility_regime |-> "Unknown (insufficient data)",
          range             |-> 0]
    ELSE LET n == Len(prices)
             v == ScaledVariance(prices)
             cv == IF sum(prices) > 0 THEN Divide(n, sum(prices), 0) ELSE Zero
             price_range == max(prices) - min(prices)
             regime == IF v <= 4 * n * n THEN "Low volatility (stable)"
                       ELSE IF v <= 25 * n * n THEN "Moderate volatility"
                       ELSE IF v <= 100 * n * n THEN "High volatility"
                       ELSE "Extreme volatility"
         IN  IF Raised(cv) THEN cv ELSE
             [std_dev           |-> RoundSqrt(v, n, 100 * price_range),
              mean              |-> RoundRatio(Ratio(sum(prices), n, 0), 100),
              volatility_regime |-> regime,
              range             |-> 100 * price_range,
              high              |-> 100 * max(prices),
              low               |-> 100 * min(prices)]

\* std_dev, mean, range, high and low in hundredths.  std_dev < 2 is
\* variance < 4, and so on for 5 and 10.  coefficient_of_variation, which no
\* property reads, is left out of the result: cv keeps only the division by
\* the mean, which is 0 where the sum is
analyze_price_volatility(prices) ==
    IF Len(prices) < 2
    THEN [std_dev           |-> 0,
          mean              |-> 5000,
          volatility_regime |-> "Unknown (insufficient data)",
          range             |-> 0]
    ELSE LET n == Len(prices)
             v == ScaledVariance(prices)
             cv == IF sum(prices) > 0 THEN Divide(n, sum(prices), 0) ELSE Zero
             price_range == max(prices) - min(prices)
             regime == IF v < 4 * n * n THEN "Low volatility (stable)"
                       ELSE IF v < 25 * n * n THEN "Moderate volatility"
                       ELSE IF v < 100 * n * n THEN "High volatility"
                       ELSE "Extreme volatility"
         IN  IF Raised(cv) THEN cv ELSE
             [std_dev           |-> RoundSqrt(v, n, 100 * price_range),
              mean              |-> RoundRatio(Ratio(sum(prices), n, 0), 100),
              volatility_regime |-> regime,
              range             |-> 100 * price_range,
              high              |-> 100 * max(prices),
              low               |-> 100 * min(prices)]

\* Series of up to 3 prices around 50, among them constant series and the
\* pairs whose deviation is exactly 2, 5 and 10; constant series at the ends
\* of the scale; and longer series whose deviation lies just under 2, 5 and 10
PriceVolatility ==
    /\ tk_pc = "ready"
    /\ \E prices \in
            UNION {[1..n -> {40, 45, 48, 50, 52, 55, 60}] : n \in 0..3}
                \cup {<<0, 0>>, <<100, 100, 100>>,
                      <<50, 50, 50, 50>>,
                      <<50, 50, 50, 50, 51, 51, 53, 56>>,
                      <<50, 50, 50, 50, 50, 50, 50, 50>>} :
          /\ tk_in' = [prices |-> prices]
          /\ tk_out' = analyze_price_volatility(prices)
    /\ tk_pc' = "analyze_price_volatility"
    /\ UNCHANGED <<pipeline_vars, trader_vars, cache_vars, positions_vars, enrich_vars>>

-----------------------------------------------------------------------------
(* The quantitative toolkit: calculate_momentum_indicators *)

\* prices[-count:]
Last(prices, count) ==
    SubSeq(prices, Max(1, Len(prices) - count + 1), Len(prices))

\* sum(slice) / len(slice), prices in hundredths.  residue tells where the
\* float quotient of a constant slice of the model's series lies with respect
\* to the price it holds: 0 on it, 1 above, -1 below; 2 and -2 lie further
\* away than 1 and -1
Mean(slice) ==
    LET residue ==
            IF Cardinality(Range(slice)) # 1 THEN 0
            ELSE LET constant == <<slice[1], Len(slice)>>
                 IN  CASE constant = <<5, 3>>   -> 1
                       [] constant = <<35, 3>>  -> -1
                       [] constant = <<49, 6>>  -> 1
                       [] constant = <<49, 24>> -> 2
                       [] constant = <<97, 6>>  -> -1
                       [] constant = <<97, 24>> -> -2
                       [] OTHER -> 0
    IN  Ratio(sum(slice), Len(slice), residue)

\* The EMA carries 4 more decimals than the prices
EmaScale == 10000

\* for p in rest: ema = alpha * p + (1 - alpha) * ema, with
\* alpha = 2 / (ema_period + 1)
RECURSIVE Ema(_, _, _)
Ema(ema, rest, ema_period) ==
    IF rest = <<>> THEN ema
    ELSE Ema((2 * EmaScale * rest[1] + (ema_period - 1) * ema) \div (ema_period + 1),
             Tail(rest), ema_period)

\* Prices and the rounded results in hundredths, rate_of_change in hundredths
\* of a percent
calculate_momentum_indicators(prices) ==
    IF Len(prices) < 3
    THEN [sma_short     |-> None,
          sma_long      |-> None,
          ema           |-> None,
          current_price |-> IF prices # <<>> THEN prices[Len(prices)] ELSE 0,
          trend_signal  |-> "Insufficient data"]
    ELSE LET current == prices[Len(prices)]
             short_period == Max(3, Len(prices) \div 4)
             sma_short == Mean(Last(prices, short_period))
             sma_long == Mean(prices)
             ema_period == IF Len(prices) < 10 THEN Len(prices) ELSE 10
             window == Last(prices, ema_period)
             ema == Ema(EmaScale * window[1], Tail(window), ema_period)
             price == Ratio(current, 1, 0)
             trend ==
                 IF Greater(price, sma_short) /\ Greater(sma_short, sma_long)
                 THEN "Strong Bullish (price > short SMA > long SMA)"
                 ELSE IF Greater(price, sma_short)
                 THEN "Bullish (price above short-term average)"
                 ELSE IF Greater(sma_short, price) /\ Greater(sma_long, sma_short)
                 THEN "Strong Bearish (price < short SMA < long SMA)"
                 ELSE IF Greater(sma_short, price)
                 THEN "Bearish (price below short-term average)"
                 ELSE "Neutral (consolidating)"
             before == prices[Len(prices) - 4]
             roc == IF Len(prices) >= 5 /\ before > 0
                    THEN Divide(current - before, before, 0)
                    ELSE Zero
         IN  IF Raised(roc) THEN roc ELSE
             [current_price  |-> current,
              sma_short      |-> RoundRatio(sma_short, 1),
              sma_long       |-> RoundRatio(sma_long, 1),
              ema            |-> RoundRatio(Ratio(ema, EmaScale, 0), 1),
              rate_of_change |-> RoundRatio(roc, 10000),
              trend_signal   |-> trend]

\* Series of up to 3 whole prices; rising, falling, flat and mixed series of
\* 5 and of 16 points (16 is where the short SMA takes 4 points); flat
\* series at prices that are not whole
MomentumIndicators ==
    /\ tk_pc = "ready"
    /\ \E prices \in
            UNION {[1..n -> {2000, 4000, 5000, 6000}] : n \in 0..3}
                \cup {<<1000, 2000, 3000, 4000, 5000>>,
                      <<5000, 4000, 3000, 2000, 1000>>,
                      <<5000, 5000, 5000, 5000, 5000>>,
                      <<0, 1000, 2000, 3000, 4000>>,
                      <<3000, 1000, 2000, 4000, 3500>>,
                      <<4000, 6000, 5000, 3000, 4000>>,
                      [i \in 1..16 |-> 500 * i],
                      [i \in 1..16 |-> 9000 - 500 * i],
                      [i \in 1..16 |-> IF i <= 12 THEN 5000
                                       ELSE IF i = 13 THEN 1000 ELSE 6000],
                      [i \in 1..16 |-> IF i <= 12 THEN 5000
                                       ELSE IF i = 13 THEN 9000 ELSE 4000],
                      [i \in 1..16 |-> 5000],
                      [i \in 1..5 |-> 0]}
                \cup {[i \in 1..3 |-> 5], [i \in 1..3 |-> 25], [i \in 1..3 |-> 35],
                      [i \in 1..24 |-> 49], [i \in 1..24 |-> 97]} :
          /\ tk_in' = [prices |-> prices]
          /\ tk_out' = calculate_momentum_indicators(prices)
    /\ tk_pc' = "calculate_momentum_indicators"
    /\ UNCHANGED <<pipeline_vars, trader_vars, cache_vars, positions_vars, enrich_vars>>

-----------------------------------------------------------------------------
(* The quantitative toolkit: compute_support_resistance *)

\* sorted(prices): ascending
RECURSIVE sorted(_)
sorted(prices) ==
    IF prices = <<>> THEN <<>>
    ELSE LET i == CHOOSE k \in 1..Len(prices) : prices[k] = min(prices)
             rest == SubSeq(prices, 1, i - 1) \o SubSeq(prices, i + 1, Len(prices))
         IN  <<prices[i]>> \o sorted(rest)

\* Mutant: the levels are read from the series as given, not sorted
compute_support_resistance_unsorted(prices) ==
    IF Len(prices) < 5
    THEN [support          |-> None,
          resistance       |-> None,
          current_position |-> <<"Insufficient data">>]
    ELSE LET current == prices[Len(prices)]
             low == min(prices)
             high == max(prices)
             sorted_prices == prices
             n == Len(sorted_prices)
             support_idx == n \div 5
             support == sorted_prices[support_idx + 1]
             resistance_idx == (4 * n) \div 5
             resistance == sorted_prices[resistance_idx + 1]
             range_size == IF resistance > support THEN resistance - support ELSE 1
             position_pct == Divide((current - support) * 100, range_size, 0)
             position ==
                 IF 100 * current <= 102 * support
                 THEN <<"At support (", 10 * support, "%) - potential bounce zone">>
                 ELSE IF 100 * current >= 98 * resistance
                 THEN <<"At resistance (", 10 * resistance,
                        "%) - potential rejection zone">>
                 ELSE IF Greater(position_pct, Ratio(70, 1, 0))
                 THEN <<"Upper range (", RoundRatio(position_pct, 1),
                        "%) - approaching resistance">>
                 ELSE IF Greater(Ratio(30, 1, 0), position_pct)
                 THEN <<"Lower range (", RoundRatio(position_pct, 1),
                        "%) - approaching support">>
                 ELSE <<"Mid-range (", RoundRatio(position_pct, 1), "%)">>
         IN  IF Raised(position_pct) THEN position_pct ELSE
             [support          |-> 100 * support,
              resistance       |-> 100 * resistance,
              period_low       |-> 100 * low,
              period_high      |-> 100 * high,
              current_position |-> position]

\* Prices in whole percents; support, resistance, period_low and period_high
\* in hundredths; the number in current_position as it is printed, in tenths
\* after "At" and whole otherwise.  int(n * 0.2) is n div 5 and int(n * 0.8)
\* is 4 * n div 5
compute_support_resistance(prices) ==
    IF Len(prices) < 5
    THEN [support          |-> None,
          resistance       |-> None,
          current_position |-> <<"Insufficient data">>]
    ELSE LET current == prices[Len(prices)]
             low == min(prices)
             high == max(prices)
             sorted_prices == sorted(prices)
             n == Len(sorted_prices)
             support_idx == n \div 5
             support == sorted_prices[support_idx + 1]
             resistance_idx == (4 * n) \div 5
             resistance == sorted_prices[resistance_idx + 1]
             range_size == IF resistance > support THEN resistance - support ELSE 1
             position_pct == Divide((current - support) * 100, range_size, 0)
             position ==
                 IF 100 * current <= 102 * support
                 THEN <<"At support (", 10 * support, "%) - potential bounce zone">>
                 ELSE IF 100 * current >= 98 * resistance
                 THEN <<"At resistance (", 10 * resistance,
                        "%) - potential rejection zone">>
                 ELSE IF Greater(position_pct, Ratio(70, 1, 0))
                 THEN <<"Upper range (", RoundRatio(position_pct, 1),
                        "%) - approaching resistance">>
                 ELSE IF Greater(Ratio(30, 1, 0), position_pct)
                 THEN <<"Lower range (", RoundRatio(position_pct, 1),
                        "%) - approaching support">>
                 ELSE <<"Mid-range (", RoundRatio(position_pct, 1), "%)">>
         IN  IF Raised(position_pct) THEN position_pct ELSE
             [support          |-> 100 * support,
              resistance       |-> 100 * resistance,
              period_low       |-> 100 * low,
              period_high      |-> 100 * high,
              current_position |-> position]

\* Series of up to 4 points, every series of 5 points over three prices,
\* and series of 6 to 11 points, among them 10 distinct prices
SupportResistance ==
    /\ tk_pc = "ready"
    /\ \E prices \in
            {<<>>, <<50>>, <<40, 60>>, <<50, 50, 50>>, <<60, 50, 40, 50>>}
                \cup [1..5 -> {40, 50, 60}]
                \cup {<<50, 10, 90, 30, 70, 20, 100, 40, 80, 60>>,
                      <<10, 20, 30, 40, 50, 60, 70, 80, 90, 100>>,
                      <<100, 90, 80, 70, 60, 50, 40, 30, 20, 10>>,
                      <<50, 50, 50, 50, 50, 50, 50, 50, 50, 50>>,
                      <<0, 0, 0, 0, 0, 0>>,
                      <<30, 80, 20, 70, 10, 60>>,
                      <<70, 10, 60, 20, 50, 30, 40>>,
                      <<10, 90, 20, 80, 30, 70, 40, 60, 45>>,
                      <<10, 90, 20, 80, 30, 70, 40, 60, 50, 35, 75>>} :
          /\ tk_in' = [prices |-> prices]
          /\ tk_out' = compute_support_resistance(prices)
    /\ tk_pc' = "compute_support_resistance"
    /\ UNCHANGED <<pipeline_vars, trader_vars, cache_vars, positions_vars, enrich_vars>>

-----------------------------------------------------------------------------
(* The quantitative toolkit: calculate_time_decay_metrics *)

\* Time is counted in seconds from midnight of day 0.  An end_date_str is
\* None or a string; a string is a plain text or a date (the day), followed
\* or not by a separator and a time (the second of the day) and by a suffix
Plain(text) ==
    [none |-> FALSE, text |-> text, date |-> -1, sep |-> "", time |-> -1, suffix |-> ""]

DateString(date, sep, time, suffix) ==
    [none |-> FALSE, text |-> "", date |-> date, sep |-> sep, time |-> time,
     suffix |-> suffix]

\* str(end_date_str).split(".")[0]: None becomes the text "None", a string
\* loses what follows its first "."
SplitDot(end_date_str) ==
    IF end_date_str.none THEN Plain("None")
    ELSE IF end_date_str.suffix \in {".000", ".000Z"}
    THEN [end_date_str EXCEPT !.suffix = ""]
    ELSE end_date_str

\* Mutant: the last format accepts any suffix after the time
strptime_lenient(string, fmt) ==
    LET matches ==
            /\ string.date >= 0
            /\ CASE fmt = "%Y-%m-%d %H:%M:%S" ->
                        string.sep = " " /\ string.time >= 0 /\ string.suffix = ""
                 [] fmt = "%Y-%m-%d" ->
                        string.sep = "" /\ string.time < 0 /\ string.suffix = ""
                 [] fmt = "%Y-%m-%dT%H:%M:%S" ->
                        string.sep = "T" /\ string.time >= 0 /\ string.suffix = ""
                 [] fmt = "%Y-%m-%dT%H:%M:%SZ" ->
                        string.sep = "T" /\ string.time >= 0
    IN  IF matches
        THEN [raised |-> FALSE,
              value  |-> 86400 * string.date + (IF string.time >= 0 THEN string.time ELSE 0)]
        ELSE [raised |-> TRUE, value |-> 0]

\* datetime.strptime(string, fmt): raises ValueError unless the whole string
\* has the form of fmt
strptime(string, fmt) ==
    LET matches ==
            /\ string.date >= 0
            /\ CASE fmt = "%Y-%m-%d %H:%M:%S" ->
                        string.sep = " " /\ string.time >= 0 /\ string.suffix = ""
                 [] fmt = "%Y-%m-%d" ->
                        string.sep = "" /\ string.time < 0 /\ string.suffix = ""
                 [] fmt = "%Y-%m-%dT%H:%M:%S" ->
                        string.sep = "T" /\ string.time >= 0 /\ string.suffix = ""
                 [] fmt = "%Y-%m-%dT%H:%M:%SZ" ->
                        string.sep = "T" /\ string.time >= 0 /\ string.suffix = "Z"
    IN  IF matches
        THEN [raised |-> FALSE,
              value  |-> 86400 * string.date + (IF string.time >= 0 THEN string.time ELSE 0)]
        ELSE [raised |-> TRUE, value |-> 0]

\* The for loop over the formats: the first one that parses, or the else
\* branch
RECURSIVE ParseEndDate(_, _)
ParseEndDate(string, k) ==
    LET formats == <<"%Y-%m-%d %H:%M:%S", "%Y-%m-%d", "%Y-%m-%dT%H:%M:%S",
                     "%Y-%m-%dT%H:%M:%SZ">>
        attempt == strptime(string, formats[k])
    IN  IF k > Len(formats) THEN [parsed |-> FALSE, end_date |-> 0]
        ELSE IF attempt.raised THEN ParseEndDate(string, k + 1)
        ELSE [parsed |-> TRUE, end_date |-> attempt.value]

\* now is datetime.now(): its second and whether half a second of it has
\* passed.  time_delta.days + time_delta.seconds / 86400 counts whole
\* seconds, total_seconds() counts the half too.  days_remaining and
\* hours_remaining are reported in tenths, volatility_risk in hundredths;
\* theta_factor, which no property reads, is left out of the result
calculate_time_decay_metrics(end_date_str, current_price, now) ==
    IF end_date_str.none \/ end_date_str = Plain("") \/ end_date_str = Plain("Unknown")
    THEN [error |-> "No end date provided", days_remaining |-> None]
    ELSE LET parse == ParseEndDate(SplitDot(end_date_str), 1)
         IN  IF ~parse.parsed
             THEN [error |-> "Could not parse end date", days_remaining |-> None]
             ELSE
    LET end_date == parse.end_date
        whole_seconds == end_date - now.second - (IF now.half THEN 1 ELSE 0)
        days_remaining == Ratio(whole_seconds, 86400, 0)
        hours_remaining ==
            Ratio(2 * (end_date - now.second) - (IF now.half THEN 1 ELSE 0), 7200, 0)
        days(count) == Ratio(count, 1, 0)
        urgency ==
            IF ~Greater(hours_remaining, Ratio(24, 1, 0))
            THEN <<"CRITICAL", "Less than 24 hours - high gamma, expect volatility">>
            ELSE IF ~Greater(days_remaining, days(3))
            THEN <<"HIGH", "Under 3 days - time pressure increasing">>
            ELSE IF ~Greater(days_remaining, days(7))
            THEN <<"MODERATE", "Under a week - monitor closely">>
            ELSE IF ~Greater(days_remaining, days(30))
            THEN <<"LOW", "Over a week - time is on your side">>
            ELSE <<"MINIMAL", "Over a month - plenty of time for thesis to play out">>
        time_pressure == IF Greater(days_remaining, days(7))
                         THEN Ratio(7 * 86400, whole_seconds, 0)
                         ELSE One
        risk_percent ==
            Ratio(2 * (50 - (IF current_price < 50 THEN 50 - current_price
                             ELSE current_price - 50)) * time_pressure.num,
                  time_pressure.den, 0)
        vol_assessment ==
            IF Greater(risk_percent, Ratio(70, 1, 0))
            THEN "HIGH - Uncertain outcome with little time = expect large swings"
            ELSE IF Greater(risk_percent, Ratio(40, 1, 0))
            THEN "MODERATE - Some price movement expected"
            ELSE "LOW - Price likely stable or already at terminal value"
        theta_advice ==
            IF current_price > 80 /\ Greater(days(7), days_remaining)
            THEN "Time favors YES holders - market pricing in high likelihood"
            ELSE IF current_price < 20 /\ Greater(days(7), days_remaining)
            THEN "Time favors NO holders - market pricing in low likelihood"
            ELSE IF 40 < current_price /\ current_price < 60
                    /\ Greater(days(3), days_remaining)
            THEN "Coin flip with clock ticking - high risk, wait for clarity or avoid"
            ELSE IF Greater(days_remaining, days(30))
            THEN "Plenty of time for information to emerge - patience may be rewarded"
            ELSE "Monitor for catalysts that could accelerate price discovery"
    IN  IF Greater(Zero, days_remaining)
        THEN [days_remaining  |-> 0,
              hours_remaining |-> 0,
              status          |-> "EXPIRED",
              urgency         |-> "Market has ended",
              theta_impact    |-> "N/A"]
        ELSE [days_remaining        |-> RoundRatio(days_remaining, 10),
              hours_remaining       |-> RoundRatio(hours_remaining, 10),
              end_date              |-> [date |-> end_date \div 86400,
                                         minute |-> (end_date % 86400) \div 60],
              urgency               |-> urgency[1],
              urgency_description   |-> urgency[2],
              volatility_risk       |-> RoundRatio(risk_percent, 1),
              volatility_assessment |-> vol_assessment,
              theta_advice          |-> theta_advice]

\* The clock stands at noon of day 100, or half a second later
Noon == 100 * 86400 + 43200

Clock == {[second |-> Noon, half |-> FALSE], [second |-> Noon, half |-> TRUE]}

\* End dates in the past, now, and around the bounds of the urgency buckets
\* (24 hours, 3, 7 and 30 days from noon), in the form str() gives a
\* datetime, and some of them in the other forms: ISO with T, with Z, with a
\* fraction, with a UTC offset, date only
EndDates ==
    {DateString((Noon + o) \div 86400, " ", (Noon + o) % 86400, "") :
        o \in {-172800, -3600, -1, 0, 1, 3600, 43200, 86399, 86400, 86401, 172800,
               259199, 259200, 259201, 432000, 604799, 604800, 604801, 1296000,
               2591999, 2592000, 2592001, 3888000}}
        \cup {DateString((Noon + o) \div 86400, "T", (Noon + o) % 86400, suffix) :
                 o \in {-3600, 43200, 432000}, suffix \in {"", "Z", ".000", ".000Z", "+00:00"}}
        \cup {DateString((Noon + o) \div 86400, " ", (Noon + o) % 86400, suffix) :
                 o \in {43200}, suffix \in {"Z", ".000", "+00:00"}}
        \cup {DateString(date, "", -1, "") : date \in {99, 100, 101, 104, 140}}
        \cup {[Plain("") EXCEPT !.none = TRUE], Plain(""), Plain("Unknown"),
              Plain("None"), Plain("TBD")}

TimeDecayMetrics ==
    /\ tk_pc = "ready"
    /\ \E end_date_str \in EndDates, current_price \in {10, 35, 50, 90}, now \in Clock :
          /\ tk_in' = [end_date_str |-> end_date_str, current_price |-> current_price,
                       now |-> now]
          /\ tk_out' = calculate_time_decay_metrics(end_date_str, current_price, now)
    /\ tk_pc' = "calculate_time_decay_metrics"
    /\ UNCHANGED <<pipeline_vars, trader_vars, cache_vars, positions_vars, enrich_vars>>

-----------------------------------------------------------------------------
(* The quantitative toolkit: calculate_expected_value *)

\* Mutant: the two profits are divided without looking at the price
calculate_expected_value_unguarded(yes_price, estimated_prob) ==
    LET yes_profit == Divide(100 - yes_price, yes_price, 0)
        no_price == 100 - yes_price
        no_profit == Divide(100 - no_price, no_price, 0)
    IN  IF Raised(yes_profit) THEN yes_profit
        ELSE IF Raised(no_profit) THEN no_profit
        ELSE [yes_ev |-> 0, no_ev |-> 0,
              edge |-> IF yes_price > estimated_prob
                       THEN yes_price - estimated_prob
                       ELSE estimated_prob - yes_price,
              recommendation |-> "Market is fairly priced"]

\* yes_price, estimated_prob and edge in whole percents; yes_ev and no_ev in
\* hundredths of a percent.
\* noise is the rounding error the floats leave in yes_ev and no_ev, for the
\* inputs of ExpectedValue whose exact value is 0 or 0.05: its sign against
\* that value
calculate_expected_value(yes_price, estimated_prob) ==
    LET in == <<yes_price, estimated_prob>>
        noise ==
            CASE in = <<3, 3>>   -> [yes |-> 1, no |-> 1]
              [] in = <<5, 5>>   -> [yes |-> -1, no |-> 1]
              [] in = <<9, 9>>   -> [yes |-> 1, no |-> -1]
              [] in = <<10, 10>> -> [yes |-> 0, no |-> -1]
              [] in = <<11, 11>> -> [yes |-> 1, no |-> -1]
              [] in = <<20, 20>> -> [yes |-> 0, no |-> -1]
              [] in = <<30, 30>> -> [yes |-> 1, no |-> 1]
              [] in = <<70, 70>> -> [yes |-> 0, no |-> 1]
              [] in = <<20, 21>> -> [yes |-> -1, no |-> 0]
              [] in = <<60, 63>> -> [yes |-> 1, no |-> 0]
              [] in = <<80, 79>> -> [yes |-> 0, no |-> 1]
              [] in = <<80, 84>> -> [yes |-> -1, no |-> 0]
              [] OTHER -> [yes |-> 0, no |-> 0]
        yes_profit == IF yes_price > 0 THEN Divide(100 - yes_price, yes_price, 0)
                      ELSE Zero
        no_price == 100 - yes_price
        no_profit == IF no_price > 0 THEN Divide(100 - no_price, no_price, 0)
                     ELSE Zero
    IN  IF Raised(yes_profit) THEN yes_profit
        ELSE IF Raised(no_profit) THEN no_profit
        ELSE
        LET yes_ev == Ratio(estimated_prob * yes_profit.num
                                - (100 - estimated_prob) * yes_profit.den,
                            100 * yes_profit.den, noise.yes)
            no_ev == Ratio((100 - estimated_prob) * no_profit.num
                               - estimated_prob * no_profit.den,
                           100 * no_profit.den, noise.no)
        IN  [yes_ev |-> RoundRatio(yes_ev, 10000),
             no_ev  |-> RoundRatio(no_ev, 10000),
             edge   |-> IF yes_price > estimated_prob
                        THEN yes_price - estimated_prob
                        ELSE estimated_prob - yes_price,
             recommendation |->
                 IF Greater(yes_ev, Ratio(1, 20, 0)) THEN "BUY YES (+EV)"
                 ELSE IF Greater(no_ev, Ratio(1, 20, 0)) THEN "BUY NO (+EV)"
                 ELSE IF Greater(yes_ev, Zero) THEN "Slight YES edge"
                 ELSE IF Greater(no_ev, Zero) THEN "Slight NO edge"
                 ELSE "Market is fairly priced"]

\* Prices and estimates in whole percents: the ends of the scale and prices
\* between them against every estimate that is a multiple of 5, three more
\* prices with the estimate equal to the price, and estimates at and within
\* the 5% return that separates a slight edge from a buy
ExpectedValue ==
    /\ tk_pc = "ready"
    /\ \E in \in ({0, 5, 10, 20, 25, 30, 50, 70, 75, 90, 95, 100}
                      \X {5 * k : k \in 0..20})
                    \cup {<<3, 3>>, <<9, 9>>, <<11, 11>>, <<20, 21>>, <<60, 63>>,
                          <<50, 52>>, <<50, 48>>, <<80, 79>>, <<80, 84>>} :
          /\ tk_in' = [yes_price |-> in[1], estimated_prob |-> in[2]]
          /\ tk_out' = calculate_expected_value(in[1], in[2])
    /\ tk_pc' = "calculate_expected_value"
    /\ UNCHANGED <<pipeline_vars, trader_vars, cache_vars, positions_vars, enrich_vars>>

-----------------------------------------------------------------------------
(* The quantitative toolkit: one call of one tool *)

ToolkitInit ==
    /\ tk_pc = "ready"
    /\ tk_in = <<>>
    /\ tk_out = <<>>
    /\ pc = "idle"
    /\ config = [none |-> TRUE, flags |-> <<>>]
    /\ graph = NoGraph
    /\ frontier = {}
    /\ state = initial_state("", <<>>, <<>>, <<>>)
    /\ executed = <<>>
    /\ errors = <<>>
    /\ llm_calls = <<>>
    /\ response = NoResponse
    /\ tpc = "idle"
    /\ top_n = 5
    /\ aggregates = <<>>
    /\ top = <<>>
    /\ stats_map = <<>>
    /\ fetch_result = Pending
    /\ cache = {}
    /\ clock = 0
    /\ cache_call = <<>>
    /\ last_set = {}
    /\ pos_pc = "idle"
    /\ max_pages = 0
    /\ collected = <<>>
    /\ seen_ids = {}
    /\ cursor = None
    /\ offset = 0
    /\ page = 0
    /\ requests = <<>>
    /\ page_response = <<>>
    /\ tasks = <<>>
    /\ semaphore = [enrich |-> 0, fetch_user_stats |-> 0]

ToolkitNext ==
    \/ ImpliedProbability
    \/ KellyCriterion
    \/ PriceVolatility
    \/ MomentumIndicators
    \/ SupportResistance
    \/ TimeDecayMetrics
    \/ ExpectedValue

ToolkitSpec == ToolkitInit /\ [][ToolkitNext]_vars

-----------------------------------------------------------------------------
(* UserStatsCache (src/backend/cache.py): the calls on one cache *)

\* user_stats_cache = UserStatsCache(ttl_seconds=300)
ttl == 300

\* Bound: the clock stops the calls at this time
MaxClock == 600

\* The cache is the set of its items, one per address; a call returns <<>>
\* for None and <<entry>> for an entry.  time.time() is taken to advance
\* between calls, by 0 or by half the ttl
CacheInit ==
    /\ cache = {}
    /\ clock = 0
    /\ cache_call = [method |-> "__init__", address |-> None, returned |-> <<>>]
    /\ last_set = {}
    /\ pc = "idle"
    /\ config = [none |-> TRUE, flags |-> <<>>]
    /\ graph = NoGraph
    /\ frontier = {}
    /\ state = initial_state("", <<>>, <<>>, <<>>)
    /\ executed = <<>>
    /\ errors = <<>>
    /\ llm_calls = <<>>
    /\ response = NoResponse
    /\ tpc = "idle"
    /\ top_n = 5
    /\ aggregates = <<>>
    /\ top = <<>>
    /\ stats_map = <<>>
    /\ fetch_result = Pending
    /\ tk_pc = "idle"
    /\ tk_in = <<>>
    /\ tk_out = <<>>
    /\ pos_pc = "idle"
    /\ max_pages = 0
    /\ collected = <<>>
    /\ seen_ids = {}
    /\ cursor = None
    /\ offset = 0
    /\ page = 0
    /\ requests = <<>>
    /\ page_response = <<>>
    /\ tasks = <<>>
    /\ semaphore = [enrich |-> 0, fetch_user_stats |-> 0]

\* UserStatsCache.set
CacheSet ==
    \E address \in {"0xaaa", "0xbbb"}, global_pnl \in {10, 20}, passed \in {0, 150} :
        LET entry == [global_pnl |-> global_pnl, global_roi |-> 5,
                      total_balance |-> 100, cached_at |-> clock + passed]
        IN  /\ clock + passed <= MaxClock
            /\ clock' = clock + passed
            /\ cache' = {item \in cache : item.address # address}
                            \cup {[address |-> address, entry |-> entry]}
            /\ last_set' = {item \in last_set : item.address # address}
                               \cup {[address |-> address, entry |-> entry]}
            /\ cache_call' = [method |-> "set", address |-> address,
                              returned |-> <<>>]
            /\ UNCHANGED <<pipeline_vars, trader_vars, toolkit_vars,
                           positions_vars, enrich_vars>>

\* Mutant: an entry is still returned at the age of ttl
CacheGet_inclusive ==
    \E address \in {"0xaaa", "0xbbb", "0xccc"}, passed \in {0, 150} :
        LET found == {item \in cache : item.address = address}
            fresh == {item \in found :
                         (clock + passed) - item.entry.cached_at <= ttl}
        IN  /\ clock + passed <= MaxClock
            /\ clock' = clock + passed
            /\ IF fresh # {}
               THEN /\ cache_call' = [method |-> "get", address |-> address,
                                      returned |-> <<(CHOOSE item \in fresh : TRUE).entry>>]
                    /\ UNCHANGED cache
               ELSE /\ cache_call' = [method |-> "get", address |-> address,
                                      returned |-> <<>>]
                    /\ cache' = cache \ found
            /\ UNCHANGED <<last_set, pipeline_vars, trader_vars, toolkit_vars,
                           positions_vars, enrich_vars>>

\* UserStatsCache.get: the entry of the address if it is younger than ttl;
\* an older one is deleted
CacheGet ==
    \E address \in {"0xaaa", "0xbbb", "0xccc"}, passed \in {0, 150} :
        LET found == {item \in cache : item.address = address}
            fresh == {item \in found :
                         (clock + passed) - item.entry.cached_at < ttl}
        IN  /\ clock + passed <= MaxClock
            /\ clock' = clock + passed
            /\ IF fresh # {}
               THEN /\ cache_call' = [method |-> "get", address |-> address,
                                      returned |-> <<(CHOOSE item \in fresh : TRUE).entry>>]
                    /\ UNCHANGED cache
               ELSE /\ cache_call' = [method |-> "get", address |-> address,
                                      returned |-> <<>>]
                    /\ cache' = cache \ found
            /\ UNCHANGED <<last_set, pipeline_vars, trader_vars, toolkit_vars,
                           positions_vars, enrich_vars>>

\* UserStatsCache.get_many: one get per address of the set, in the order the
\* set gives them, with no other call in between.  Each get reads the clock
\* for itself: read is the time the clock shows at the get of an address,
\* 0 or half the ttl after the reading before it (the first after the call
\* before).  It returns the entries that get returned, by address, and the
\* addresses get returned None for; the entries get found expired are
\* deleted.
CacheGetMany ==
    \E addresses \in SUBSET {"0xaaa", "0xbbb", "0xccc"} :
        \E read \in [addresses -> {clock + 150 * k :
                                      k \in 0..Cardinality(addresses)}] :
            LET found == {item \in cache : item.address \in addresses}
                fresh == {item \in found :
                             read[item.address] - item.entry.cached_at < ttl}
                cached == fresh
                uncached == addresses \ {item.address : item \in fresh}
                readings == {read[address] : address \in addresses}
            IN  /\ \A time \in readings :
                      time = clock \/ time - 150 \in readings \cup {clock}
                /\ \A time \in readings : time <= MaxClock
                /\ clock' = CHOOSE time \in readings \cup {clock} :
                                \A other \in readings \cup {clock} : time >= other
                /\ cache' = cache \ (found \ fresh)
                /\ cache_call' = [method |-> "get_many", address |-> None,
                                  returned |-> <<cached, uncached>>]
                /\ UNCHANGED <<last_set, pipeline_vars, trader_vars,
                               toolkit_vars, positions_vars, enrich_vars>>

CacheNext ==
    \/ CacheSet
    \/ CacheGet
    \/ CacheGetMany

CacheSpec == CacheInit /\ [][CacheNext]_vars

-----------------------------------------------------------------------------
(* _fetch_all_positions (src/backend/routes/users.py): the paging loop *)

\* Bound: the largest max_pages a call is given (the default is 200)
MaxPages == 3

\* a or b or c or d on the fields conditionId and slug, and on outcome and
\* asset, of an item; the key is the string f"{market_id}:{outcome}", in
\* which a None reads "None", or None when the item has neither
_position_key_from_raw(item) ==
    IF ~item.is_dict THEN None
    ELSE LET market_id == Or(item.conditionId, item.slug)
             outcome == Or(item.outcome, item.asset)
             str(value) == IF value = None THEN "None" ELSE value
         IN  IF market_id = None /\ outcome = None THEN None
             ELSE str(market_id) \o ":" \o str(outcome)

\* Mutant: an item is collected whether or not its key was seen
RECURSIVE AddItems_unseen(_, _)
AddItems_unseen(acc, batch) ==
    IF batch = <<>> THEN acc
    ELSE LET item == Head(batch)
             key == _position_key_from_raw(item)
         IN  IF ~item.is_dict THEN AddItems_unseen(acc, Tail(batch))
             ELSE AddItems_unseen(
                      [collected |-> Append(acc.collected, item),
                       seen_ids  |-> IF key # None THEN acc.seen_ids \cup {key}
                                     ELSE acc.seen_ids,
                       new_items |-> acc.new_items + 1],
                      Tail(batch))

\* "for item in batch": items that are not dicts and items whose key was
\* seen are passed over, the others collected
RECURSIVE AddItems(_, _)
AddItems(acc, batch) ==
    IF batch = <<>> THEN acc
    ELSE LET item == Head(batch)
             key == _position_key_from_raw(item)
         IN  IF ~item.is_dict THEN AddItems(acc, Tail(batch))
             ELSE IF key # None /\ key \in acc.seen_ids
             THEN AddItems(acc, Tail(batch))
             ELSE AddItems(
                      [collected |-> Append(acc.collected, item),
                       seen_ids  |-> IF key # None THEN acc.seen_ids \cup {key}
                                     ELSE acc.seen_ids,
                       new_items |-> acc.new_items + 1],
                      Tail(batch))

PositionsInit ==
    /\ pos_pc = "called"
    /\ max_pages \in 0..MaxPages
    /\ collected = <<>>
    /\ seen_ids = {}
    /\ cursor = None
    /\ offset = 0
    /\ page = 0
    /\ requests = <<>>
    /\ page_response = <<>>
    /\ pc = "idle"
    /\ config = [none |-> TRUE, flags |-> <<>>]
    /\ graph = NoGraph
    /\ frontier = {}
    /\ state = initial_state("", <<>>, <<>>, <<>>)
    /\ executed = <<>>
    /\ errors = <<>>
    /\ llm_calls = <<>>
    /\ response = NoResponse
    /\ tpc = "idle"
    /\ top_n = 5
    /\ aggregates = <<>>
    /\ top = <<>>
    /\ stats_map = <<>>
    /\ fetch_result = Pending
    /\ tk_pc = "idle"
    /\ tk_in = <<>>
    /\ tk_out = <<>>
    /\ cache = {}
    /\ clock = 0
    /\ cache_call = <<>>
    /\ last_set = {}
    /\ tasks = <<>>
    /\ semaphore = [enrich |-> 0, fetch_user_stats |-> 0]

\* The head of "while page < max_pages", reached with the page, cursor and
\* offset given: with a page left the next request is sent, with the cursor
\* when there is one and the offset when there is none, and the coroutine
\* waits for the answer in await client.get; with none left the loop ends
\* and the async with of the client is left, which is an await
LoopHead(next_page, next_cursor, next_offset) ==
    IF next_page < max_pages
    THEN /\ requests' = Append(requests,
                               [cursor |-> next_cursor,
                                offset |-> IF next_cursor # None
                                           THEN 0 - 1 ELSE next_offset])
         /\ pos_pc' = "get"
    ELSE /\ pos_pc' = "exit"
         /\ UNCHANGED requests

\* The call runs up to its first await: nothing collected, page 0, the
\* client entered and the first request sent (none with max_pages = 0)
_fetch_all_positions ==
    /\ pos_pc = "called"
    /\ LoopHead(page, cursor, offset)
    /\ UNCHANGED <<max_pages, collected, seen_ids, cursor, offset, page,
                   page_response, pipeline_vars, trader_vars, toolkit_vars,
                   cache_vars, enrich_vars>>

\* The answer to the request comes in and the coroutine runs up to its next
\* await.  The server answers with a failed request, a status other than
\* 200, or a page: the list that _extract_list_from_response finds in it
\* (empty when there is none) and the cursor that _extract_next_cursor finds
\* (None when there is none).  A break leaves the async with of the client;
\* a page with a new item is collected and the loop goes on to its head in
\* the same run.
\* The items: two positions, the first of them once more with another size,
\* a position identified by slug and asset, a dict without identifiers and
\* an item that is not a dict
FetchPage ==
    /\ pos_pc = "get"
    /\ LET Item(conditionId, slug, outcome, asset, size) ==
               [is_dict |-> TRUE, conditionId |-> conditionId, slug |-> slug,
                outcome |-> outcome, asset |-> asset, size |-> size]
           first == Item("0xm1", None, "Yes", None, 10)
           again == Item("0xm1", None, "Yes", None, 20)
           second == Item("", "my-market", None, "token-2", 5)
           plain == Item(None, None, None, None, 7)
           named == Item("None", None, "Yes", None, 3)
           nameless == Item(None, None, "Yes", None, 4)
           other == [is_dict |-> FALSE, conditionId |-> None, slug |-> None,
                     outcome |-> None, asset |-> None, size |-> 0]
           batches == {<<>>, <<first>>, <<again, second>>, <<second>>,
                       <<plain>>, <<other>>, <<first, plain>>,
                       <<named, nameless>>}
           responses ==
               {[raises |-> TRUE, status_code |-> 0, batch |-> <<>>, next |-> None],
                [raises |-> FALSE, status_code |-> 500, batch |-> <<>>, next |-> None]}
               \cup {[raises |-> FALSE, status_code |-> 200, batch |-> batch,
                      next |-> next] :
                        batch \in batches, next \in {None, "c1", "c2"}}
       IN  \E resp \in responses :
               LET added == AddItems([collected |-> collected, seen_ids |-> seen_ids,
                                      new_items |-> 0], resp.batch)
                   next_cursor == IF resp.next # None /\ resp.next # cursor
                                  THEN resp.next ELSE None
                   next_offset == IF resp.next # None /\ resp.next # cursor
                                  THEN offset ELSE offset + Len(resp.batch)
               IN  /\ page_response' = resp
                   /\ IF resp.raises \/ resp.status_code # 200 \/ resp.batch = <<>>
                      THEN /\ pos_pc' = "exit"
                           /\ UNCHANGED <<collected, seen_ids, cursor, offset,
                                          page, requests>>
                      ELSE /\ collected' = added.collected
                           /\ seen_ids' = added.seen_ids
                           /\ IF added.new_items = 0
                              THEN /\ pos_pc' = "exit"
                                   /\ UNCHANGED <<cursor, offset, page, requests>>
                              ELSE /\ cursor' = next_cursor
                                   /\ offset' = next_offset
                                   /\ page' = page + 1
                                   /\ LoopHead(page + 1, next_cursor, next_offset)
    /\ UNCHANGED <<max_pages, pipeline_vars, trader_vars, toolkit_vars,
                   cache_vars, enrich_vars>>

\* The async with of the client has been left: return collected
ReturnCollected ==
    /\ pos_pc = "exit"
    /\ pos_pc' = "returned"
    /\ UNCHANGED <<max_pages, collected, seen_ids, cursor, offset, page, requests,
                   page_response, pipeline_vars, trader_vars, toolkit_vars,
                   cache_vars, enrich_vars>>

PositionsNext ==
    \/ _fetch_all_positions
    \/ FetchPage
    \/ ReturnCollected

\* The event loop runs the coroutine when it is called, after every answer
\* and after the exit of the client
PositionsSpec ==
    PositionsInit /\ [][PositionsNext]_vars /\ WF_vars(PositionsNext)

-----------------------------------------------------------------------------
(* Properties of the pipeline *)

\* The order in which a compiled workflow visits its nodes: follow the edges
\* from the entry point
RECURSIVE PlanFrom(_, _, _)
PlanFrom(g, n, fuel) ==
    IF n = END \/ n \notin g.nodes \/ fuel = 0 THEN <<>>
    ELSE LET out == {e \in g.edges : e[1] = n}
         IN  IF Cardinality(out) # 1 THEN <<n>>
             ELSE <<n>> \o PlanFrom(g, (CHOOSE e \in out : TRUE)[2], fuel - 1)

Plan(g) == PlanFrom(g, g.entry, Cardinality(g.nodes))

CanonicalIndex(a) == CHOOSE i \in 1..Len(AGENT_ORDER) : AGENT_ORDER[i] = a

FlagTrueOrAbsent(a) ==
    config.none \/ a \notin DOMAIN config.flags \/ config.flags[a]

Built == pc \in {"run", "done"}

\* C1: the plan build_debate_graph produces is the agents whose flag is true
\* or absent, in their canonical relative order, followed by the moderator as
\* the last element; with no agent enabled the plan is exactly [moderator];
\* the plan is a function of the configuration alone.
C1_PlanIsCanonicalSelection ==
    Built =>
        LET plan == Plan(graph)
            n    == Len(plan)
        IN  /\ n >= 1
            /\ plan[n] = "moderator"
            /\ Range(plan) = graph.nodes
            /\ Cardinality(graph.edges) = n
            /\ \A i \in 1..(n - 1) : plan[i] \in AGENT_NODES
            /\ \A a \in AGENT_NODES :
                  (\E i \in 1..(n - 1) : plan[i] = a) <=> FlagTrueOrAbsent(a)
            /\ \A i, j \in 1..(n - 1) :
                  i < j => CanonicalIndex(plan[i]) < CanonicalIndex(plan[j])
            /\ (\A a \in AGENT_NODES : ~FlagTrueOrAbsent(a)) => plan = <<"moderator">>
            /\ (\A a \in AGENT_NODES : FlagTrueOrAbsent(a) <=> a = "devils_advocate")
                  => plan = <<"devils_advocate", "moderator">>

C1_Witness ==
    /\ pc = "run"
    /\ ~config.none
    /\ \E a \in AGENT_NODES : a \notin DOMAIN config.flags
    /\ \E a \in AGENT_NODES : a \in DOMAIN config.flags /\ ~config.flags[a]
    /\ \E a \in AGENT_NODES : a \in DOMAIN config.flags /\ config.flags[a]
    /\ Len(Plan(graph)) >= 3

\* C2: in a run every stage of the plan executes exactly once, in plan order,
\* one at a time (the next stage is scheduled only when the previous one has
\* completed), the moderator is the last to execute, no stage runs twice.
C2_StagesRunOnceInPlanOrder ==
    Built =>
        LET plan == Plan(graph)
            k    == Len(executed)
        IN  /\ k <= Len(plan)
            /\ executed = SubSeq(plan, 1, k)
            /\ \A i, j \in 1..k : i # j => executed[i] # executed[j]
            /\ k < Len(plan) => pc = "run" /\ frontier = {plan[k + 1]}
            /\ k = Len(plan) => frontier = {} /\ executed[k] = "moderator"
            /\ pc = "done" => executed = plan

C2_Witness ==
    /\ pc = "done"
    /\ Len(executed) >= 4
    /\ executed[Len(executed)] = "moderator"

\* The text a node's except block puts before str(e)
DegradedPrefix ==
    [statistics_expert    |-> "**Statistics Expert**: (Failed to analyze) ",
     time_decay_analyst   |-> "**Time Decay Analyst**: (Failed to analyze) ",
     top_traders_analyst  |-> "**Top Traders Analyst**: (Failed to analyze) ",
     generalist_expert    |-> "**Generalist Expert**: (Failed to analyze) ",
     crypto_macro_analyst |-> "**Crypto/Macro Analyst**: (Failed to analyze) ",
     devils_advocate      |-> "**Devil's Advocate**: (Failed to analyze) ",
     moderator            |-> "**Moderator**: (Failed to reach verdict) "]

\* C3: whichever stages fail, the run completes with exactly one contribution
\* per planned stage, in plan order and authored by that stage; a failed
\* stage's contribution states the failure and carries the error description,
\* and the stages after it still execute.
C3_FailedStagesStillContribute ==
    /\ pc = "run" => Len(state.messages) = Len(executed)
    /\ pc = "done" =>
          LET plan == Plan(graph)
              msgs == state.messages
          IN  /\ executed = plan
              /\ Len(msgs) = Len(plan)
              /\ Len(response.messages) = Len(plan)
              /\ \A i \in 1..Len(plan) :
                    /\ msgs[i].name = AgentName[plan[i]]
                    /\ response.messages[i].agent = AgentName[plan[i]]
                    /\ response.messages[i].content = msgs[i].content
                    /\ errors[i] # "" =>
                          msgs[i].content = <<DegradedPrefix[plan[i]], errors[i]>>

C3_Witness ==
    /\ pc = "done"
    /\ \E i, j, k \in 1..Len(errors) :
          i < j /\ j < k /\ errors[i] # "" /\ errors[j] = "" /\ errors[k] # ""

\* C4: every completed run returns a non-empty verdict string, whichever
\* stages failed and whatever text the LLM returned to the moderator.
C4_VerdictNonEmpty ==
    pc = "done" => response.verdict # ""

\* C5: when the moderator itself fails it does not propagate the exception:
\* it appends a degraded Moderator contribution, sets the verdict to
\* "Verdict generation failed." and leaves the earlier contributions as they
\* were.
C5_ModeratorFailureFallsBack ==
    [][(/\ executed' = Append(executed, "moderator")
        /\ errors'[Len(errors')] # "")
       => /\ pc' = "run"
          /\ state'.verdict = "Verdict generation failed."
          /\ state'.messages =
                Append(state.messages,
                       HumanMessage(<<"**Moderator**: (Failed to reach verdict) ",
                                      errors'[Len(errors')]>>, "Moderator"))]_vars

C5_Witness ==
    /\ pc = "done"
    /\ Len(executed) >= 3
    /\ errors[Len(errors)] # ""
    /\ errors[1] = ""
    /\ response.verdict = "Verdict generation failed."

\* C6: a run changes the shared state only by appending contributions and by
\* setting the verdict once: no step removes, reorders or rewrites an
\* existing contribution, the verdict stays empty until the moderator runs
\* and is set by it alone, and the market snapshot, the question, the price
\* series and the trader snapshots never change.
C6_StateOnlyGrows ==
    [][/\ Len(state'.messages) \in {Len(state.messages), Len(state.messages) + 1}
       /\ SubSeq(state'.messages, 1, Len(state.messages)) = state.messages
       /\ state'.verdict # state.verdict =>
             executed' = Append(executed, "moderator")
       /\ "moderator" \notin Range(executed') => state'.verdict = ""
       /\ "moderator" \in Range(executed) => state'.verdict = state.verdict
       /\ state'.market_data = state.market_data
       /\ state'.market_question = state.market_question
       /\ state'.price_history_24h = state.price_history_24h
       /\ state'.price_history_7d = state.price_history_7d
       /\ state'.top_traders = state.top_traders]_vars

C6_Witness ==
    /\ pc = "done"
    /\ Len(state.messages) >= 4
    /\ state.verdict # ""
    /\ state.top_traders # <<>>

Min(S) == CHOOSE x \in S : \A y \in S : x <= y

\* ctx holds every element of parts as a contiguous run, in the order of
\* parts and without overlap
RECURSIVE ContainsInOrder(_, _)
ContainsInOrder(ctx, parts) ==
    IF parts = <<>> THEN TRUE
    ELSE LET c      == Head(parts)
             starts == {p \in 1..(Len(ctx) - Len(c) + 1) :
                           SubSeq(ctx, p, p + Len(c) - 1) = c}
         IN  /\ starts # {}
             /\ ContainsInOrder(SubSeq(ctx, Min(starts) + Len(c), Len(ctx)),
                                Tail(parts))

\* C7: the devil's advocate and the moderator read all the contributions
\* appended before them: the context of their prompt holds the content of
\* every earlier contribution of the run, degraded ones included, in
\* insertion order.
C7_ContextHoldsAllPriorContributions ==
    [][\A n \in {"devils_advocate", "moderator"} :
          executed' = Append(executed, n) =>
             /\ Len(llm_calls') = Len(llm_calls) + 1
             /\ llm_calls'[Len(llm_calls')].agent = n
             /\ ContainsInOrder(llm_calls'[Len(llm_calls')].context,
                    [i \in 1..Len(state.messages) |-> state.messages[i].content])]_vars

C7_Witness ==
    /\ pc = "done"
    /\ \E k \in 4..Len(executed) :
          /\ executed[k] = "devils_advocate"
          /\ errors[1] # ""
          /\ errors[2] = ""
          /\ \E c \in Range(llm_calls) :
                /\ c.agent = "devils_advocate"
                /\ Len(c.context) > Len(state.messages[k - 1].content) + 2

\* C8: a configuration holding an identifier that is not in the registry is
\* rejected when the plan is built: no plan is built or run for it.
C8_UnknownIdentifierRejected ==
    (~config.none /\ UnknownAgent \in DOMAIN config.flags) => ~Built

-----------------------------------------------------------------------------
(* Properties of the trader-flow aggregation *)

Returned_traders ==
    IF fetch_result.status = "returned" THEN fetch_result.traders ELSE <<>>

\* C9: every entry returned by the trade-record aggregation has bias
\* 'bullish' iff bullish_volume > 1.1 x bearish_volume, 'bearish' iff
\* bearish_volume > 1.1 x bullish_volume and 'mixed' otherwise; 111/100 is
\* bullish, 110/100 and 109/100 are mixed, and the two strict conditions are
\* never both true.
C9_BiasFollowsThresholds ==
    \A i \in 1..Len(Returned_traders) :
        LET entry == Returned_traders[i]
        IN  "bullish_volume" \in DOMAIN entry =>
               LET bullish == entry.bullish_volume
                   bearish == entry.bearish_volume
               IN  /\ "bias" \in DOMAIN entry
                   /\ entry.bias \in {"bullish", "bearish", "mixed"}
                   /\ entry.bias = "bullish" <=> 10 * bullish > 11 * bearish
                   /\ entry.bias = "bearish" <=> 10 * bearish > 11 * bullish
                   /\ ~(10 * bullish > 11 * bearish /\ 10 * bearish > 11 * bullish)
                   /\ (bullish = Float(111, 0) /\ bearish = Float(100, 0))
                          => entry.bias = "bullish"
                   /\ (bullish = Float(110, 0) /\ bearish = Float(100, 0))
                          => entry.bias = "mixed"
                   /\ (bullish = Float(109, 0) /\ bearish = Float(100, 0))
                          => entry.bias = "mixed"

C9_Witness ==
    /\ tpc = "returned"
    /\ \E i \in 1..Len(Returned_traders) :
          /\ "bias" \in DOMAIN Returned_traders[i]
          /\ Returned_traders[i].bullish_volume = Float(111, 0)
          /\ Returned_traders[i].bearish_volume = Float(100, 0)
          /\ Returned_traders[i].trade_count = 2
          /\ Returned_traders[i].bias = "bullish"

\* C10: the list _fetch_top_traders returns holds at most one entry per
\* wallet address, on the holders path and on the trade-record path.
C10_OneEntryPerAddress ==
    \A i, j \in 1..Len(Returned_traders) :
        i # j => Returned_traders[i].address # Returned_traders[j].address

\* C11: every entry _fetch_top_traders returns carries a bias in {bullish,
\* bearish, mixed}, whether it came from the holders snapshot or from the
\* trade records.
C11_EveryEntryCarriesBias ==
    \A i \in 1..Len(Returned_traders) :
        /\ "bias" \in DOMAIN Returned_traders[i]
        /\ Returned_traders[i].bias \in {"bullish", "bearish", "mixed"}

TradesPathReturned == tpc = "returned" /\ aggregates # <<>>

\* C12: on the trade-record path the result is the per-wallet aggregates
\* sorted by total volume, largest first, cut to the top N: its length is
\* min(N, number of wallets with an accepted record), and no wallet left out
\* has a larger total volume than a wallet that is included.
C12_RankedAndTruncated ==
    TradesPathReturned =>
        LET ranked  == fetch_result.traders
            wallets == Range(Addresses(aggregates))
        IN  /\ Cardinality(wallets) = Len(aggregates)
            /\ Len(ranked) = Min({top_n, Cardinality(wallets)})
            /\ \A i \in 1..(Len(ranked) - 1) :
                  ranked[i].total_volume >= ranked[i + 1].total_volume
            /\ \A i \in 1..Len(ranked) : \E j \in 1..Len(aggregates) :
                  /\ aggregates[j].address = ranked[i].address
                  /\ aggregates[j].total_volume = ranked[i].total_volume
                  /\ aggregates[j].trade_count = ranked[i].trade_count
            /\ \A i, k \in 1..Len(ranked) :
                  i # k => ranked[i].address # ranked[k].address
            /\ \A j \in 1..Len(aggregates) :
                  aggregates[j].address \notin Range(Addresses(ranked)) =>
                     \A i \in 1..Len(ranked) :
                        aggregates[j].total_volume <= ranked[i].total_volume

C12_Witness ==
    /\ TradesPathReturned
    /\ top_n = 1
    /\ Len(aggregates) = 2
    /\ aggregates[1].total_volume < aggregates[2].total_volume
    /\ Len(fetch_result.traders) = 1
    /\ fetch_result.traders[1].address = aggregates[2].address

StatsOfFailedCalls ==
    fetch_user_stats([positions |-> RequestFails, closed |-> RequestFails,
                      value |-> RequestFails])

\* From the ranking to the return of the enriched entries
Enriching ==
    {"enrich_holders", "enrich_traders", "exit_client2", "exit_client",
     "return_top_holders"}

RankingSurvivesEnrichment ==
    (tpc \in Enriching /\ tpc' \notin Enriching) =>
        /\ tpc' = "returned"
        /\ fetch_result'.status = "returned"
        /\ Addresses(fetch_result'.traders) = Addresses(top)
        /\ ~StatsOfFailedCalls.raised
        /\ StatsOfFailedCalls.stats = <<0, 0, 0>>

\* C13: whichever enrichment calls fail or answer with malformed data, the
\* aggregation returns the wallets it ranked, in the same order; a wallet
\* whose three calls all fail gets global_pnl, global_roi and total_balance 0.
C13_EnrichmentNeverAbortsRanking == [][RankingSurvivesEnrichment]_vars

\* The fields of a trade record as the aggregation reads them
TradeWallet(trade) == Or(trade.proxyWallet, Or(trade.wallet, trade.address))

TradeOfMarket(trade) ==
    \E field \in {trade.slug, trade.conditionId} :
        field \notin {None, ""} /\ Normalized(field) \in market_keys

TradeIsBullish(trade) ==
    \/ Upper(trade.side) = "BUY" /\ Lower(trade.outcome) \in {"yes", "up"}
    \/ Upper(trade.side) = "SELL" /\ Lower(trade.outcome) \in {"no", "down"}

\* The record has a positive notional: the explicit value, else size * price
TradeHasValue(trade) ==
    IF trade.value # <<>> THEN trade.value[1] > 0
    ELSE /\ trade.size # <<>>
         /\ trade.price # <<>>
         /\ trade.size[1] * trade.price[1] > 0

\* The timestamp is one of the accepted forms and not older than the window
TradeIsRecent(trade) ==
    LET ts == trade.timestamp
        time == IF ts.kind = "int" /\ ts.n > MillisThreshold THEN ts.n \div 1000
                ELSE ts.n
    IN  /\ \/ ts.kind = "int" /\ ts.n # 0
           \/ ts.kind = "str" /\ ts.form \in {"iso_naive", "iso_z", "iso_offset"}
        /\ time >= UtcNow - LookbackDays

\* The volumes and the count of a wallet, 0 before its first record
WalletTotals(aggs, wallet) ==
    IF \E i \in 1..Len(aggs) : aggs[i].address = wallet
    THEN LET agg == aggs[CHOOSE i \in 1..Len(aggs) : aggs[i].address = wallet]
         IN  [total_volume |-> agg.total_volume, trade_count |-> agg.trade_count,
              bullish_volume |-> agg.bullish_volume,
              bearish_volume |-> agg.bearish_volume]
    ELSE [total_volume |-> 0, trade_count |-> 0,
          bullish_volume |-> 0, bearish_volume |-> 0]

\* C24: on the trade-record path a record contributes to the aggregates only
\* if it matches the market, has a parsable timestamp inside the lookback
\* window, side BUY or SELL, a positive notional and a wallet; an accepted
\* record is bullish iff (BUY and yes/up) or (SELL and no/down) and bearish
\* otherwise; a rejected record changes no aggregate
C24_OnlyQualifiedRecordsContribute ==
    tpc = "aggregate" =>
        \A trade \in TradeInputs :
            LET step == ProcessTrade(aggregates, trade)
                old == WalletTotals(aggregates, TradeWallet(trade))
                new == WalletTotals(step.aggregates, TradeWallet(trade))
            IN  IF step.what = "add"
                THEN /\ TradeOfMarket(trade)
                     /\ TradeIsRecent(trade)
                     /\ Upper(trade.side) \in {"BUY", "SELL"}
                     /\ TradeHasValue(trade)
                     /\ TradeWallet(trade) \notin {None, ""}
                     /\ IF TradeIsBullish(trade)
                        THEN /\ new.bullish_volume > old.bullish_volume
                             /\ new.bearish_volume = old.bearish_volume
                        ELSE /\ new.bearish_volume > old.bearish_volume
                             /\ new.bullish_volume = old.bullish_volume
                ELSE step.aggregates = aggregates

\* A wallet with one bullish and one bearish record, and a record of another
\* market waiting to be rejected
C24_Witness ==
    /\ tpc = "aggregate"
    /\ \E i \in 1..Len(aggregates) :
          /\ aggregates[i].address = "0xaaa"
          /\ aggregates[i].bullish_volume = Float(100, 0)
          /\ aggregates[i].bearish_volume = Float(100, 0)
    /\ \E trade \in TradeInputs :
          /\ ~TradeOfMarket(trade)
          /\ ProcessTrade(aggregates, trade).what = "skip"

\* C25: each record's timestamp is handled on its own: epoch seconds, epoch
\* milliseconds and ISO strings with or without a "Z" or UTC offset are
\* parsed and compared with the cutoff, an unparsable one rejects its record
\* alone, and no timestamp aborts the aggregation
C25_TimestampsHandledPerRecord ==
    tpc = "aggregate" =>
        \A trade \in TradeInputs :
            LET step == ProcessTrade(aggregates, trade)
            IN  /\ step.what # "raise"
                /\ (/\ TradeOfMarket(trade)
                    /\ Upper(trade.side) \in {"BUY", "SELL"}
                    /\ TradeHasValue(trade)
                    /\ TradeWallet(trade) \notin {None, ""})
                       => (step.what = "add" <=> TradeIsRecent(trade))

\* C27: after any sequence of records every wallet aggregate has
\* total_volume = bullish_volume + bearish_volume and trade_count >= 1, each
\* wallet has one aggregate, and an accepted record adds 1 to the count and
\* its notional to the total of exactly one wallet, and the notional to
\* exactly one of bullish_volume and bearish_volume
C27_AggregatesAddUp ==
    /\ \A i \in 1..Len(aggregates) :
          /\ aggregates[i].total_volume
                 = FloatAdd(aggregates[i].bullish_volume,
                            aggregates[i].bearish_volume)
          /\ aggregates[i].trade_count >= 1
          /\ \A j \in 1..Len(aggregates) :
                aggregates[i].address = aggregates[j].address => i = j
    /\ tpc = "aggregate" =>
          \A trade \in TradeInputs :
              LET step == ProcessTrade(aggregates, trade)
                  notional == IF trade.value # <<>> THEN trade.value[1]
                              ELSE (trade.size[1] * trade.price[1]) \div 1000
                  wallets == {aggregates[i].address : i \in 1..Len(aggregates)}
                                 \cup {TradeWallet(trade)}
              IN  step.what = "add" =>
                      \A wallet \in wallets :
                          LET old == WalletTotals(aggregates, wallet)
                              new == WalletTotals(step.aggregates, wallet)
                          IN  IF wallet = TradeWallet(trade)
                              THEN /\ new.trade_count = old.trade_count + 1
                                   /\ new.total_volume
                                          = FloatAdd(old.total_volume, notional)
                                   /\ \/ /\ new.bullish_volume
                                                = FloatAdd(old.bullish_volume, notional)
                                         /\ new.bearish_volume = old.bearish_volume
                                      \/ /\ new.bearish_volume
                                                = FloatAdd(old.bearish_volume, notional)
                                         /\ new.bullish_volume = old.bullish_volume
                              ELSE new = old

-----------------------------------------------------------------------------
(* Properties of the quantitative toolkit *)

\* C14: calculate_implied_probability returns implied_yes = round(price, 2)
\* and implied_no = round(100 - price, 2), each breakeven equals its implied
\* probability, the vig is 0 and the two implied probabilities sum to 100.
C14_ImpliedProbabilitiesSumTo100 ==
    tk_pc = "calculate_implied_probability" =>
        /\ tk_out.breakeven_yes = tk_out.implied_yes_prob
        /\ tk_out.breakeven_no = tk_out.implied_no_prob
        /\ tk_out.vig_percentage = 0
        /\ tk_out.implied_yes_prob + tk_out.implied_no_prob = 10000

\* C15: for yes_price and estimated_prob in [0, 100] the reported Kelly
\* fraction lies in [0, 1] (full_kelly in [0, 100], half_kelly and
\* quarter_kelly in the matching halves), and when the optimal side is NONE
\* the fraction is 0 and the advice is not to bet.
C15_KellyFractionClamped ==
    tk_pc = "calculate_kelly_criterion" =>
        /\ tk_out.full_kelly \in 0..10000
        /\ tk_out.half_kelly \in 0..5000
        /\ tk_out.quarter_kelly \in 0..2500
        /\ tk_out.optimal_side = "NONE" =>
              /\ tk_out.full_kelly = 0
              /\ tk_out.half_kelly = 0
              /\ tk_out.quarter_kelly = 0
              /\ tk_out.recommendation = NoBet

C15_Witness ==
    /\ tk_pc = "calculate_kelly_criterion"
    /\ tk_in.yes_price = 50
    /\ tk_in.estimated_prob = 50
    /\ tk_out.optimal_side = "NONE"
    /\ tk_out.recommendation = NoBet

\* C16: analyze_price_volatility returns the sentinel (std_dev 0, mean 50) for
\* a series of fewer than 2 points; for a longer series the regime is Low
\* when the std_dev it returns is < 2, Moderate when 2 <= std_dev < 5, High
\* when 5 <= std_dev < 10 and Extreme otherwise; a constant series of at
\* least 2 points has std_dev 0, range 0 and the Low regime.
C16_RegimeFollowsStdDev ==
    tk_pc = "analyze_price_volatility" =>
        IF Len(tk_in.prices) < 2
        THEN tk_out.std_dev = 0 /\ tk_out.mean = 5000
        ELSE /\ tk_out.volatility_regime =
                   (IF tk_out.std_dev < 200 THEN "Low volatility (stable)"
                    ELSE IF tk_out.std_dev < 500 THEN "Moderate volatility"
                    ELSE IF tk_out.std_dev < 1000 THEN "High volatility"
                    ELSE "Extreme volatility")
             /\ Cardinality(Range(tk_in.prices)) = 1 =>
                   /\ tk_out.std_dev = 0
                   /\ tk_out.range = 0
                   /\ tk_out.volatility_regime = "Low volatility (stable)"

\* n * n * n times the variance of the series: the sum of the squared
\* deviations from the mean, each scaled by n
CubedVariance(prices) ==
    LET n == Len(prices)
        deviation == [i \in 1..n |-> n * prices[i] - sum(prices)]
    IN  sum([i \in 1..n |-> deviation[i] * deviation[i]])

\* The regime that the thresholds 2, 5 and 10 assign to the standard
\* deviation of the series: std_dev < t is variance < t * t
RegimeOf(prices) ==
    LET n == Len(prices)
        v == CubedVariance(prices)
    IN  IF v < 4 * n * n * n THEN "Low volatility (stable)"
        ELSE IF v < 25 * n * n * n THEN "Moderate volatility"
        ELSE IF v < 100 * n * n * n THEN "High volatility"
        ELSE "Extreme volatility"

\* C16 as amended: analyze_price_volatility returns the sentinel (std_dev 0,
\* mean 50) for a series of fewer than 2 points; for a longer series the
\* regime is Low when the standard deviation is < 2, Moderate when it is
\* >= 2 and < 5, High when it is >= 5 and < 10 and Extreme otherwise, the
\* standard deviation being the one the function computes, before it is
\* rounded to two places for std_dev; a constant series of at least 2
\* points has std_dev 0, range 0 and the Low regime.
C16_RegimeFollowsDeviation ==
    tk_pc = "analyze_price_volatility" =>
        IF Len(tk_in.prices) < 2
        THEN tk_out.std_dev = 0 /\ tk_out.mean = 5000
        ELSE /\ tk_out.volatility_regime = RegimeOf(tk_in.prices)
             /\ Cardinality(Range(tk_in.prices)) = 1 =>
                   /\ tk_out.std_dev = 0
                   /\ tk_out.range = 0
                   /\ tk_out.volatility_regime = "Low volatility (stable)"

\* A deviation of 1.9961, below the threshold, returned as std_dev 2.0
C16_Witness ==
    /\ tk_pc = "analyze_price_volatility"
    /\ tk_in.prices = <<50, 50, 50, 50, 51, 51, 53, 56>>
    /\ tk_out.std_dev = 200
    /\ tk_out.volatility_regime = "Low volatility (stable)"

\* The label that the ordering rules give to a series of at least 3 points,
\* with short SMA = mean of the last max(3, len div 4) points and long SMA =
\* mean of the series: means compared as exact fractions
TrendOf(prices) ==
    LET n == Len(prices)
        current == prices[n]
        k == IF n \div 4 > 3 THEN n \div 4 ELSE 3
        short == sum(SubSeq(prices, n - k + 1, n))
        long == sum(prices)
    IN  IF current * k > short /\ short * n > long * k THEN "Strong Bullish"
        ELSE IF current * k > short THEN "Bullish"
        ELSE IF current * k < short /\ short * n < long * k THEN "Strong Bearish"
        ELSE IF current * k < short THEN "Bearish"
        ELSE "Neutral"

\* The trend_signal begins with the label, followed by " (": the labels'
\* signals
SignalOf(label) ==
    CASE label = "Strong Bullish" -> "Strong Bullish (price > short SMA > long SMA)"
      [] label = "Bullish" -> "Bullish (price above short-term average)"
      [] label = "Strong Bearish" -> "Strong Bearish (price < short SMA < long SMA)"
      [] label = "Bearish" -> "Bearish (price below short-term average)"
      [] label = "Neutral" -> "Neutral (consolidating)"

\* C17: for a series of at least 3 points the trend label is Strong Bullish
\* iff current > short SMA > long SMA, Bullish iff current > short SMA only,
\* Strong Bearish iff current < short SMA < long SMA, Bearish iff current <
\* short SMA only, and Neutral iff current = short SMA, where the short SMA
\* is the mean of the last max(3, len div 4) points and the long SMA the mean
\* of the series.
C17_TrendFollowsAverages ==
    tk_pc = "calculate_momentum_indicators" /\ Len(tk_in.prices) >= 3 =>
        tk_out.trend_signal = SignalOf(TrendOf(tk_in.prices))

\* level (in hundredths) is the element at index idx, counted from 0, of the
\* ascending-sorted series: at most idx points lie below it and more than idx
\* points do not lie above it
IsSortedAt(prices, idx, level) ==
    /\ \E i \in 1..Len(prices) : 100 * prices[i] = level
    /\ Cardinality({i \in 1..Len(prices) : 100 * prices[i] < level}) <= idx
    /\ Cardinality({i \in 1..Len(prices) : 100 * prices[i] <= level}) > idx

Accepted(end_date_str) ==
    /\ ~end_date_str.none
    /\ end_date_str.date >= 0
    /\ \/ end_date_str.sep = "" /\ end_date_str.suffix = ""
       \/ end_date_str.sep = " " /\ end_date_str.suffix \in {"", ".000"}
       \/ end_date_str.sep = "T" /\ end_date_str.suffix \in {"", "Z", ".000", ".000Z"}

\* The time from now to an accepted end date, in half seconds
Remaining(end_date_str, now) ==
    2 * (86400 * end_date_str.date
            + (IF end_date_str.time >= 0 THEN end_date_str.time ELSE 0)
            - now.second)
        - (IF now.half THEN 1 ELSE 0)

\* The bucket of a remaining time, in half seconds
BucketOf(remaining) ==
    IF remaining <= 2 * 24 * 3600 THEN "CRITICAL"
    ELSE IF remaining <= 2 * 3 * 86400 THEN "HIGH"
    ELSE IF remaining <= 2 * 7 * 86400 THEN "MODERATE"
    ELSE IF remaining <= 2 * 30 * 86400 THEN "LOW"
    ELSE "MINIMAL"

Severity(urgency) ==
    CASE urgency = "CRITICAL" -> 4
      [] urgency = "HIGH" -> 3
      [] urgency = "MODERATE" -> 2
      [] urgency = "LOW" -> 1
      [] urgency = "MINIMAL" -> 0

Buckets == {"CRITICAL", "HIGH", "MODERATE", "LOW", "MINIMAL"}

\* C19: for an end date that is not in the past the urgency is exactly one
\* bucket: CRITICAL iff the hours remaining are <= 24, else HIGH iff the days
\* remaining are <= 3, else MODERATE iff <= 7, else LOW iff <= 30, else
\* MINIMAL; and an end date with less time remaining never has a less severe
\* urgency.
C19_UrgencyBuckets ==
    tk_pc = "calculate_time_decay_metrics" /\ Accepted(tk_in.end_date_str)
            /\ Remaining(tk_in.end_date_str, tk_in.now) >= 0 =>
        /\ tk_out.urgency = BucketOf(Remaining(tk_in.end_date_str, tk_in.now))
        /\ \A sooner \in EndDates, now \in Clock :
              Accepted(sooner) /\ Remaining(sooner, now) >= 0
                  /\ Remaining(sooner, now) <= Remaining(tk_in.end_date_str, tk_in.now) =>
                 LET other == calculate_time_decay_metrics(sooner, tk_in.current_price, now)
                 IN  /\ other.urgency \in Buckets
                     /\ Severity(other.urgency) >= Severity(tk_out.urgency)

\* C20: calculate_time_decay_metrics returns a result for every end date: an
\* absent one (empty, None, "Unknown") or one of no accepted form gives an
\* error field and days_remaining None; one in the past gives status
\* EXPIRED, days_remaining 0, hours_remaining 0 and no urgency bucket.
C20_AbsentUnparsableExpired ==
    tk_pc = "calculate_time_decay_metrics" =>
        IF ~Accepted(tk_in.end_date_str)
        THEN /\ "error" \in DOMAIN tk_out
             /\ tk_out.days_remaining = None
        ELSE /\ "error" \notin DOMAIN tk_out
             /\ Remaining(tk_in.end_date_str, tk_in.now) < 0 =>
                   /\ tk_out.status = "EXPIRED"
                   /\ tk_out.days_remaining = 0
                   /\ tk_out.hours_remaining = 0
                   /\ tk_out.urgency \notin Buckets

C20_Witness ==
    /\ tk_pc = "calculate_time_decay_metrics"
    /\ tk_in.end_date_str = DateString(100, "T", 39600, "Z")
    /\ tk_out.status = "EXPIRED"
    /\ tk_out.days_remaining = 0
    /\ tk_out.urgency = "Market has ended"

\* C21: no toolkit function raises on degenerate input: for every price and
\* estimate between 0 and 100, the ends included, and for every series, the
\* empty, one-point, all-zero and constant ones included, the call returns a
\* result
C21_NoToolkitFunctionRaises ==
    tk_pc \in {"calculate_expected_value", "calculate_implied_probability",
               "calculate_kelly_criterion", "analyze_price_volatility",
               "calculate_momentum_indicators", "compute_support_resistance"}
        => ~Raised(tk_out)

\* A bet priced at 0 is valued: the guarded profit is 0 and the whole stake
\* that the estimate does not cover is lost
C21_Witness ==
    /\ tk_pc = "calculate_expected_value"
    /\ tk_in.yes_price = 0
    /\ tk_in.estimated_prob = 50
    /\ tk_out.yes_ev = -5000
    /\ tk_out.no_ev = -5000

\* C23: the recommendation of calculate_expected_value is the first match of
\* yes_ev > 0.05 (BUY YES), no_ev > 0.05 (BUY NO), yes_ev > 0 (slight YES
\* edge), no_ev > 0 (slight NO edge), else fairly priced, where yes_ev is
\* prob * (1 - price) / price - (1 - prob) and no_ev its mirror image; and
\* where the estimate equals a price strictly between 0 and 100 both values
\* are 0 and the market is fairly priced
C23_RecommendationByFirstMatch ==
    tk_pc = "calculate_expected_value" =>
        LET yes_price == tk_in.yes_price
            estimated_prob == tk_in.estimated_prob
            yes_ev == IF yes_price > 0
                      THEN Ratio(estimated_prob - yes_price, yes_price, 0)
                      ELSE Ratio(estimated_prob - 100, 100, 0)
            no_ev == IF yes_price < 100
                     THEN Ratio(yes_price - estimated_prob, 100 - yes_price, 0)
                     ELSE Ratio(0 - estimated_prob, 100, 0)
        IN  /\ tk_out.recommendation =
                   IF Greater(yes_ev, Ratio(1, 20, 0)) THEN "BUY YES (+EV)"
                   ELSE IF Greater(no_ev, Ratio(1, 20, 0)) THEN "BUY NO (+EV)"
                   ELSE IF Greater(yes_ev, Zero) THEN "Slight YES edge"
                   ELSE IF Greater(no_ev, Zero) THEN "Slight NO edge"
                   ELSE "Market is fairly priced"
            /\ estimated_prob = yes_price /\ 0 < yes_price /\ yes_price < 100
                   => /\ tk_out.yes_ev = 0
                      /\ tk_out.no_ev = 0
                      /\ tk_out.recommendation = "Market is fairly priced"

\* C28: the YES and NO Kelly fractions are never both positive: for a price
\* strictly between 0 and 100 the optimal side is YES iff the estimate is
\* above the price, NO iff it is below and NONE iff they are equal; for a
\* price of 0 or 100 the side is NONE
C28_KellySideFollowsEdge ==
    tk_pc = "calculate_kelly_criterion" =>
        tk_out.optimal_side =
            IF tk_in.yes_price = 0 \/ tk_in.yes_price = 100 THEN "NONE"
            ELSE IF tk_in.estimated_prob > tk_in.yes_price THEN "YES"
            ELSE IF tk_in.estimated_prob < tk_in.yes_price THEN "NO"
            ELSE "NONE"

\* C22: toolkit input errors never surface as a stage failure: whatever the
\* length of the price series, the quantitative stage fails only where its
\* LLM call does
C22_ToolkitFallbacksNeverFailStage ==
    \A i \in 1..Len(executed) :
        executed[i] = "statistics_expert" =>
            \/ errors[i] = ""
            \/ \E llm \in AnalystLLM : ~llm.ok /\ errors[i] = llm.text

-----------------------------------------------------------------------------
(* Properties of the user stats cache *)

\* C29: get returns an entry only if one was set for the address less than
\* ttl seconds before, and then the values of the last set; from the age of
\* ttl on it returns None and the entry is gone; it never returns an expired
\* entry or the values of another address
C29_GetReturnsFreshEntryOfAddress ==
    cache_call.method = "get" =>
        LET set == {item \in last_set : item.address = cache_call.address}
            fresh == {item \in set : clock - item.entry.cached_at < ttl}
        IN  IF fresh # {}
            THEN \E item \in fresh : cache_call.returned = <<item.entry>>
            ELSE /\ cache_call.returned = <<>>
                 /\ \A item \in cache : item.address # cache_call.address

\* A get at the age of ttl: the entry of the address is dropped and the
\* entry of the other address, set later with other values, stays
C29_Witness ==
    /\ cache_call = [method |-> "get", address |-> "0xaaa", returned |-> <<>>]
    /\ \E item \in last_set :
          item.address = "0xaaa" /\ clock - item.entry.cached_at = ttl
    /\ \E item \in cache :
          item.address = "0xbbb" /\ clock - item.entry.cached_at < ttl

-----------------------------------------------------------------------------
(* Properties of the paging of positions *)

\* The non-null position keys of a list of items
PositionKeys(items) ==
    {_position_key_from_raw(items[i]) : i \in 1..Len(items)} \ {None}

\* A page that ends the paging: a failed request, a status other than 200,
\* an empty page, or a page none of whose items is new
EndsPaging(resp, items) ==
    \/ resp.raises
    \/ resp.status_code # 200
    \/ resp.batch = <<>>
    \/ \A i \in 1..Len(resp.batch) :
          \/ ~resp.batch[i].is_dict
          \/ _position_key_from_raw(resp.batch[i]) \in PositionKeys(items)

PagingStaysBounded ==
    /\ Len(requests) <= max_pages
    /\ \A i, j \in 1..Len(collected) :
          (/\ i # j
           /\ _position_key_from_raw(collected[i]) # None)
              => _position_key_from_raw(collected[i])
                     # _position_key_from_raw(collected[j])

\* An answer that ends the paging adds nothing and is followed by no
\* request; any other answer adds an item and is followed by the next
\* request while a page is left; once the paging has ended nothing is
\* collected or requested any more
PagingStopsAtFirstEnd ==
    /\ pos_pc = "get" =>
          IF EndsPaging(page_response', collected)
          THEN /\ pos_pc' = "exit"
               /\ collected' = collected
               /\ requests' = requests
          ELSE /\ Len(collected') > Len(collected)
               /\ IF page' < max_pages
                  THEN pos_pc' = "get" /\ Len(requests') = Len(requests) + 1
                  ELSE pos_pc' = "exit" /\ requests' = requests
    /\ pos_pc \in {"exit", "returned"} =>
          /\ pos_pc' = "returned"
          /\ collected' = collected
          /\ requests' = requests

\* C30: _fetch_all_positions sends at most max_pages page requests whatever
\* the server answers, the same page or the same cursor for ever included,
\* and returns; it stops at the first empty page, status other than 200,
\* failed request or page without a new item; and collected never holds two
\* items with the same non-null position key
C30_PagingIsBoundedAndDeduplicated ==
    /\ []PagingStaysBounded
    /\ [][PagingStopsAtFirstEnd]_vars
    /\ <>(pos_pc = "returned")

\* The server sent the same two positions twice, with a cursor: the second
\* page added nothing and ended the paging with a page request to spare
C30_Witness ==
    /\ pos_pc = "returned"
    /\ Len(requests) = 2
    /\ max_pages = 3
    /\ Len(collected) = 2
    /\ page_response.status_code = 200
    /\ Len(page_response.batch) = 2
    /\ page_response.next = "c1"

-----------------------------------------------------------------------------
(* Properties of the enrichment tasks *)

\* The tasks that hold a semaphore
InFlight == {i \in 1..Len(tasks) : tasks[i].pc = "in_flight"}

\* The tasks that have not ended
Unfinished == {i \in 1..Len(tasks) : tasks[i].pc \in {"waiting", "in_flight"}}

\* The stats the tasks that returned give an address: those of its last task
ListOrderStats(address) ==
    LET Done(i) == tasks[i].pc = "done" /\ tasks[i].address = address
        last == CHOOSE i \in 1..Len(tasks) :
                   /\ Done(i)
                   /\ \A j \in (i + 1)..Len(tasks) : ~Done(j)
    IN  tasks[last].result[1]

\* C26: at most 8 lookups are in flight at any time; until a gather has
\* returned no entry carries stats and stats_map is empty, whatever the tasks
\* have done; stats_map is built from the results of the tasks once they
\* have all returned; and the function returns only when every enrichment
\* task has ended, each entry with the stats the task list gives its
\* address, in whatever order the tasks finished
C26_GatherJoinsBoundedTasks ==
    /\ Cardinality(InFlight) <= 8
    /\ tpc \notin {"exit_client2", "exit_client", "return_top_holders",
                    "returned"} =>
          stats_map = <<>>
    /\ tpc # "returned" => fetch_result.traders = <<>>
    /\ tpc \notin {"return_top_holders", "returned"} =>
          /\ \A i \in 1..Len(top) : "global_pnl" \notin DOMAIN top[i]
          /\ \A i \in 1..Len(aggregates) :
                "global_pnl" \notin DOMAIN aggregates[i]
    /\ tpc \in {"exit_client2", "exit_client"} =>
          \A i \in 1..Len(top) :
              /\ top[i].address \in DOMAIN stats_map
              /\ stats_map[top[i].address] = ListOrderStats(top[i].address)
    /\ tpc = "returned" => fetch_result.traders = top
    /\ tpc \in {"return_top_holders", "returned"} =>
          /\ Unfinished = {}
          /\ \A i \in 1..Len(top) :
                <<top[i].global_pnl, top[i].global_roi, top[i].total_balance>>
                    = ListOrderStats(top[i].address)

====
